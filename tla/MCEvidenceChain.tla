--------------------------- MODULE MCEvidenceChain ---------------------------
(* Every combination of: progress on both sides of each bound of the delay *)
(* rule; every persisted study-right status, one the rules do not know, no *)
(* record; meeting histories on both sides of the windows; deadlines at    *)
(* the edges of theirs; and every query raising.                           *)
EXTENDS EvidenceChain

Ects(read, expected) == [read |-> read, completed |-> 100, expected |-> expected]
MCEcts == {Ects("ok", e) : e \in {99, 100, 101, 129, 130, 159, 160}}
          \cup {Ects("not_found", 0), Ects("raises", 0)}

Right(read, status) == [read |-> read, status |-> status]
MCRights == {Right("ok", s) : s \in {"EXPIRED", "EXPIRES_SOON", "EXTENDED", "ACTIVE",
                                     "GRADUATED", "SUSPENDED"}}
            \cup {Right("not_found", "none"), Right("raises", "none")}

Meeting(id, status, day) == [id |-> id, status |-> status, day |-> day, sound |-> TRUE]
MCMeetings ==
    {[read |-> "ok", rows |-> m] :
        m \in {{},
               {Meeting(1, "COMPLETED", -90)},
               {Meeting(1, "COMPLETED", -91)},
               {Meeting(1, "MISSED", 0), Meeting(2, "COMPLETED", 0)},
               {Meeting(1, "COMPLETED", -3), Meeting(2, "MISSED", -1)},
               {Meeting(1, "SCHEDULED", 30), Meeting(2, "CANCELLED", -1)},
               {Meeting(1, "SCHEDULED", -1)},
               {Meeting(1, "COMPLETED", -3), [Meeting(2, "MISSED", -1) EXCEPT !.sound = FALSE]}}}
    \cup {[read |-> "raises", rows |-> {}]}

Event(type, day, all) == [type |-> type, day |-> day, all |-> all]
MCEvents ==
    {[read |-> "ok", rows |-> e] :
        e \in {{}, {Event("DEADLINE", 0, TRUE)}, {Event("DEADLINE", 14, TRUE)},
               {Event("DEADLINE", 15, TRUE), Event("DEADLINE", -1, TRUE),
                Event("DEADLINE", 3, FALSE), Event("EXAM", 3, TRUE)}}}
    \cup {[read |-> "raises", rows |-> {}]}

MCStudents == [ects : MCEcts, right : MCRights, meetings : MCMeetings, events : MCEvents]
=============================================================================
