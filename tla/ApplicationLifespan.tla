-------------------------- MODULE ApplicationLifespan --------------------------
(***************************************************************************)
(* The lifespan of the application's processes (main.py, with the Telegram *)
(* application's start and stop in api/routes/telegram): the bot and its   *)
(* notification sender come up first, then the scheduler and its three     *)
(* jobs one by one, then requests are served; shutdown goes the other way. *)
(* A step that raises ends the startup, and the process exits after it,    *)
(* while the scheduler it had started runs on until then.                  *)
(***************************************************************************)
EXTENDS Integers, Sequences

CONSTANT Servers        \* the processes of the application

VARIABLES
    enabled,    \* settings.telegram_webhook_enabled and settings.scheduler_enabled
    phase,      \* how far the lifespan of each process is
    sender,     \* the processes with the bot started and its sender configured
    scheduling, \* the processes whose scheduler is running
    jobs,       \* the jobs registered with it, in the order of their registration
    deaf        \* has a job begun in a process without a sender?

lifespanVars == <<enabled, phase, sender, scheduling, jobs, deaf>>

Registrations == <<"monday", "daily", "weekly">>
Phases == {"down", "bot", "register", "serving", "failed", "stopping", "closing"}

LifespanTypeOK ==
    /\ enabled \subseteq {"webhook", "scheduler"}
    /\ phase \in [Servers -> Phases]
    /\ sender \subseteq Servers /\ scheduling \subseteq Servers
    /\ jobs \in [Servers -> Seq({"monday", "daily", "weekly"})]
    /\ deaf \in BOOLEAN

LifespanInit ==
    /\ enabled \in SUBSET {"webhook", "scheduler"}
    /\ phase = [s \in Servers |-> "down"]
    /\ sender = {} /\ scheduling = {}
    /\ jobs = [s \in Servers |-> <<>>]
    /\ deaf = FALSE

Enter(s, from, to) == phase[s] = from /\ phase' = [phase EXCEPT ![s] = to]

\* initialize and start of the bot, then its sender; nothing is configured when they raise.
InitializeTelegram(s) ==
    /\ \/ Enter(s, "down", "bot") /\ sender' = sender \cup {s}
       \/ Enter(s, "down", "failed") /\ UNCHANGED sender
    /\ "webhook" \in enabled
    /\ UNCHANGED <<enabled, scheduling, jobs, deaf>>

WithoutTelegram(s) ==
    /\ "webhook" \notin enabled /\ Enter(s, "down", "bot")
    /\ UNCHANGED <<enabled, sender, scheduling, jobs, deaf>>

StartScheduler(s) ==
    /\ "scheduler" \in enabled /\ Enter(s, "bot", "register")
    /\ scheduling' = scheduling \cup {s}
    /\ UNCHANGED <<enabled, sender, jobs, deaf>>

WithoutScheduler(s) ==
    /\ "scheduler" \notin enabled /\ Enter(s, "bot", "serving")
    /\ UNCHANGED <<enabled, sender, scheduling, jobs, deaf>>

RegisterNext(s) ==
    /\ Len(jobs[s]) < Len(Registrations) /\ Enter(s, "register", "register")
    /\ jobs' = [jobs EXCEPT ![s] = Append(@, Registrations[Len(@) + 1])]
    /\ UNCHANGED <<enabled, sender, scheduling, deaf>>

\* An import, a setting or the registration itself raises: logged and raised again.
RegistrationFails(s) ==
    /\ Len(jobs[s]) < Len(Registrations) /\ Enter(s, "register", "failed")
    /\ UNCHANGED <<enabled, sender, scheduling, jobs, deaf>>

StartServing(s) ==
    /\ jobs[s] = Registrations /\ Enter(s, "register", "serving")
    /\ UNCHANGED <<enabled, sender, scheduling, jobs, deaf>>

\* A loop of the scheduler reaches its time and runs the job, which asks for the sender.
BeginJob(s) ==
    /\ s \in scheduling /\ jobs[s] # <<>>
    /\ deaf' = (deaf \/ s \notin sender)
    /\ UNCHANGED <<enabled, phase, sender, scheduling, jobs>>

Shutdown(s) ==
    /\ Enter(s, "serving", "stopping")
    /\ UNCHANGED <<enabled, sender, scheduling, jobs, deaf>>

\* Mutant of StopScheduler: the sender is cleared before the scheduler is stopped.
StopSchedulerLast(s) ==
    /\ \/ phase[s] = "stopping" /\ s \in sender /\ sender' = sender \ {s}
          /\ UNCHANGED <<phase, scheduling>>
       \/ Enter(s, "stopping", "closing") /\ s \notin sender
          /\ scheduling' = scheduling \ {s} /\ UNCHANGED sender
    /\ UNCHANGED <<enabled, jobs, deaf>>

\* Scheduler.stop cancels its loops and waits for them (see Scheduler).
StopScheduler(s) ==
    /\ Enter(s, "stopping", "closing")
    /\ scheduling' = scheduling \ {s}
    /\ UNCHANGED <<enabled, sender, jobs, deaf>>

ShutdownTelegram(s) ==
    /\ Enter(s, "closing", "down")
    /\ sender' = sender \ {s}
    /\ jobs' = [jobs EXCEPT ![s] = <<>>]
    /\ UNCHANGED <<enabled, scheduling, deaf>>

\* After a failed startup, or by a crash: nothing of the process is left.
Exit(s) ==
    /\ phase[s] # "down" /\ phase' = [phase EXCEPT ![s] = "down"]
    /\ sender' = sender \ {s} /\ scheduling' = scheduling \ {s}
    /\ jobs' = [jobs EXCEPT ![s] = <<>>]
    /\ UNCHANGED <<enabled, deaf>>

\* The steps of a process while it serves nobody's message.
LifespanStep(s) ==
    \/ InitializeTelegram(s) \/ WithoutTelegram(s) \/ StartScheduler(s) \/ WithoutScheduler(s)
    \/ RegisterNext(s) \/ RegistrationFails(s) \/ StartServing(s) \/ BeginJob(s)
    \/ StopScheduler(s) \/ ShutdownTelegram(s)
-----------------------------------------------------------------------------
(* A process serves requests with everything its settings ask for, or not  *)
(* at all: the bot, its sender, the scheduler and all three jobs; and a    *)
(* job never begins in a process whose sender is not, or no longer, there, *)
(* a failed startup and every order of shutdown and job included (lifespan,*)
(* "prevent partially initialized app").                                   *)
ServesWholeOrNotAtAll ==
    /\ \A s \in Servers : phase[s] = "serving" =>
          /\ "webhook" \in enabled => s \in sender
          /\ "scheduler" \in enabled => s \in scheduling /\ jobs[s] = Registrations
    /\ "webhook" \in enabled => ~deaf
=============================================================================
