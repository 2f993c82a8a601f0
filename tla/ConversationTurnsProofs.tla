----------------------- MODULE ConversationTurnsProofs -----------------------
(***************************************************************************)
(* The safety properties of ConversationTurns hold for any number of       *)
(* turns, requests, entities and students.                                 *)
(*                                                                         *)
(* The argument: a clarification that is remembered, loaded or answered is *)
(* always a turn that ended by asking for it (AsksFor), and such a turn    *)
(* never changes again; what a turn may run with is fixed when it starts   *)
(* to run (Runs); and while turns do not overlap and the store works, the  *)
(* one turn being processed still has the context the conversation has.    *)
(***************************************************************************)
EXTENDS ConversationTurns, SequenceTheorems, FiniteSetTheorems, WellFoundedInduction, TLAPS

Context == memory["chat"].context

(* A turn that ended by asking which of the candidates was meant. *)
AsksFor(a) ==
    /\ turn[a].stage = "done" /\ turn[a].status = "completed"
    /\ turn[a].plan = "none" /\ turn[a].pending = a
    /\ turn[a].request \in Requests
    /\ Unresolved(turn[a].request) # {}

(* What a record that runs or ran routes says of them. *)
Fresh(d) ==
    d.plan # "none" /\ d.settled = "none" /\ Content[d.request].explicit = "none" =>
        /\ d.plan = d.request
        /\ \A mention \in Range(Content[d.plan].mentions) :
              IsResolved(mention) /\ d.entities[mention.kind] \in mention.means
        /\ \A k \in Content[d.plan].needs : d.entities[k] # "none"

Resumed(d) ==
    d.plan # "none" /\ d.settled # "none" =>
        /\ d.plan = turn[d.settled].request
        /\ Offer(d.settled).kind = "STUDENT"
        /\ d.entities["STUDENT"] \in Offer(d.settled).means

(* How far a turn has come and what its record then holds. *)
Staged(d) ==
    /\ d.stage = "unsent" => d = Unsent
    /\ d.stage # "unsent" => d.request \in Requests
    /\ d.stage \in {"answering", "routing"} =>
          d.plan = "none" /\ d.settled = "none" /\ Content[d.request].explicit = "none"
    /\ d.stage = "answering" => d.loaded # "none"
    /\ d.status # "none" => d.stage = "done"

(* Which turns a record refers to. *)
Refers(t, d) ==
    /\ d.loaded # "none" => AsksFor(d.loaded)
    /\ d.settled # "none" => d.settled = d.loaded
    /\ d.pending # "none" =>
          /\ d.status = "completed" /\ d.plan = "none" /\ d.settled = "none"
          /\ \/ d.pending = t /\ Unresolved(d.request) # {}
             \/ d.pending = d.loaded

TurnOK(t, d) == d \in TurnRecords /\ Staged(d) /\ Refers(t, d) /\ Fresh(d) /\ Resumed(d)

MemoryRecords ==
    [messages : Seq(Messages), context : [entities : EntityContexts, pending : Clarifications]]

(* A record processed with the context the conversation has. *)
Follows(d) ==
    /\ d.scoped
    /\ d.loaded = Context.pending
    /\ \A k \in Kinds : k \notin Named(d) => d.entities[k] = Context.entities[k]

OneAtATime ==
    ~disturbed =>
        /\ \A t, u \in Active : t = u
        /\ \A t \in Active : Follows(turn[t])

IInv ==
    /\ memory \in [Scopes -> MemoryRecords]
    /\ history \in Seq(Messages) /\ Len(history) <= MaxHistory
    /\ disturbed \in BOOLEAN
    /\ turn \in [Turns -> TurnRecords]
    /\ \A t \in Turns : TurnOK(t, turn[t])
    /\ \A message \in Range(memory["chat"].messages) :
          turn[message.turn].status \in {"completed", "partial"}
    /\ Context.pending # "none" => AsksFor(Context.pending)
    /\ OneAtATime
    /\ SettledStaysSettled
-----------------------------------------------------------------------------
(* What the helpers on turn records change, field by field.                *)
LEMMA ReplyFields ==
    ASSUME NEW d \in TurnRecords, NEW s \in {"completed", "partial", "failed"},
           NEW p \in Clarifications
    PROVE  LET r == Reply(d, s, p) IN
           /\ r \in TurnRecords
           /\ r.stage = "done" /\ r.status = s /\ r.pending = p
           /\ r.request = d.request /\ r.scoped = d.scoped /\ r.loaded = d.loaded
           /\ r.entities = d.entities /\ r.plan = d.plan /\ r.settled = d.settled
  BY DEF Reply, TurnRecords, Stages

LEMMA RunFields ==
    ASSUME NEW d \in TurnRecords, NEW q \in Requests
    PROVE  LET r == RunWorkflow(d, q) IN
           /\ r \in TurnRecords
           /\ r.stage = "running" /\ r.plan = q
           /\ r.request = d.request /\ r.scoped = d.scoped /\ r.loaded = d.loaded
           /\ r.entities = d.entities /\ r.settled = d.settled
           /\ r.status = d.status /\ r.pending = d.pending
  BY DEF RunWorkflow, TurnRecords, Stages

LEMMA EntitiesFields ==
    ASSUME NEW d \in TurnRecords, NEW e \in EntityContexts
    PROVE  LET r == [d EXCEPT !.entities = e] IN
           /\ r \in TurnRecords
           /\ r.entities = e
           /\ r.stage = d.stage /\ r.request = d.request /\ r.scoped = d.scoped
           /\ r.loaded = d.loaded /\ r.plan = d.plan /\ r.settled = d.settled
           /\ r.status = d.status /\ r.pending = d.pending
  BY DEF TurnRecords

LEMMA StageFields ==
    ASSUME NEW d \in TurnRecords, NEW x \in Stages
    PROVE  LET r == [d EXCEPT !.stage = x] IN
           /\ r \in TurnRecords
           /\ r.stage = x
           /\ r.entities = d.entities /\ r.request = d.request /\ r.scoped = d.scoped
           /\ r.loaded = d.loaded /\ r.plan = d.plan /\ r.settled = d.settled
           /\ r.status = d.status /\ r.pending = d.pending
  BY DEF TurnRecords

LEMMA SettledFields ==
    ASSUME NEW d \in TurnRecords, NEW x \in Clarifications
    PROVE  LET r == [d EXCEPT !.settled = x] IN
           /\ r \in TurnRecords
           /\ r.settled = x
           /\ r.stage = d.stage /\ r.entities = d.entities /\ r.request = d.request
           /\ r.scoped = d.scoped /\ r.loaded = d.loaded /\ r.plan = d.plan
           /\ r.status = d.status /\ r.pending = d.pending
  BY DEF TurnRecords

(* A name that is known to one person leaves no choice.                    *)
LEMMA TheOnlyOne ==
    ASSUME NEW S, Cardinality(S) = 1
    PROVE  (CHOOSE e \in S : TRUE) \in S
<1>1. S # {}
  BY FS_EmptySet
<1> QED
  BY <1>1

(* Once everything a request names is resolved, merging is well typed,     *)
(* gives the entity each reference means and keeps the other kinds.        *)
LEMMA MergeProperties ==
    ASSUME NEW r \in Requests, Unresolved(r) = {}, NEW entities \in EntityContexts
    PROVE  LET mentions == Content[r].mentions
               merged == Merge(entities, mentions)
           IN  /\ merged \in EntityContexts
               /\ \A mention \in Range(mentions) :
                     IsResolved(mention) /\ merged[mention.kind] \in mention.means
               /\ \A k \in Kinds : k \notin {mention.kind : mention \in Range(mentions)}
                                   => merged[k] = entities[k]
<1> DEFINE mentions == Content[r].mentions
           merged == Merge(entities, mentions)
           of(k) == {i \in DOMAIN mentions : mentions[i].kind = k}
           last(k) == CHOOSE i \in of(k) : \A j \in of(k) : j <= i
<1>1. mentions \in Seq(Mentions)
  BY RequestsAssumption DEF Contents
<1>2. /\ DOMAIN mentions \subseteq Nat
      /\ \A i \in DOMAIN mentions : mentions[i] \in Mentions
  BY <1>1, LenProperties, ElementOfSeq
<1>3. \A i \in DOMAIN mentions : IsResolved(mentions[i])
  BY DEF Unresolved
<1>4. \A k \in Kinds : merged[k] = IF of(k) = {} THEN entities[k]
                                   ELSE CHOOSE e \in mentions[last(k)].means : TRUE
  BY DEF Merge
<1>5. ASSUME NEW i \in DOMAIN mentions
      PROVE  /\ mentions[i].kind \in Kinds
             /\ merged[mentions[i].kind] \in mentions[i].means
             /\ mentions[i].means \subseteq Entities
  <2> DEFINE k == mentions[i].kind
  <2>1. k \in Kinds /\ mentions[i].means \subseteq Entities
    BY <1>2 DEF Mentions
  <2>2. of(k) = {i}
    BY MentionsAssumption
  <2>3. \A j \in of(k) : j <= i
    BY <1>2, <2>2
  <2>4. last(k) \in of(k)
    BY <2>2, <2>3
  <2>5. last(k) = i
    BY <2>2, <2>4
  <2>6. merged[k] = CHOOSE e \in mentions[i].means : TRUE
    BY <1>4, <2>1, <2>2, <2>5
  <2>7. Cardinality(mentions[i].means) = 1
    BY <1>3 DEF IsResolved
  <2> QED
    BY <2>1, <2>6, <2>7, TheOnlyOne
<1>6. \A k \in Kinds : of(k) = {} => merged[k] = entities[k]
  BY <1>4
<1>7. \A k \in Kinds : merged[k] \in Entities \cup {"none"}
  <2> SUFFICES ASSUME NEW k \in Kinds
               PROVE  merged[k] \in Entities \cup {"none"}
    OBVIOUS
  <2>1. CASE of(k) = {}
    BY <1>6, <2>1 DEF EntityContexts
  <2>2. CASE of(k) # {}
    <3>1. PICK i \in DOMAIN mentions : mentions[i].kind = k
      BY <2>2
    <3> QED
      BY <1>5, <3>1
  <2> QED
    BY <2>1, <2>2
<1>8. merged = [k \in Kinds |-> merged[k]]
  BY DEF Merge
<1>9. merged \in EntityContexts
  BY <1>7, <1>8 DEF EntityContexts
<1>10. \A mention \in Range(mentions) :
          IsResolved(mention) /\ merged[mention.kind] \in mention.means
  BY <1>3, <1>5 DEF Range
<1>11. \A k \in Kinds : k \notin {mention.kind : mention \in Range(mentions)} => of(k) = {}
  BY DEF Range
<1> QED
  BY <1>6, <1>9, <1>10, <1>11
-----------------------------------------------------------------------------
(* A record before it is known what the turn does.                         *)
Undecided(d) ==
    /\ d \in TurnRecords /\ d.request \in Requests
    /\ d.plan = "none" /\ d.settled = "none" /\ d.pending = "none" /\ d.status = "none"
    /\ d.loaded # "none" => AsksFor(d.loaded)

(* What a turn becomes keeps its context but for the kinds it names.       *)
Keeps(d, r) ==
    /\ r.request = d.request /\ r.scoped = d.scoped /\ r.loaded = d.loaded
    /\ \A k \in Kinds : k \notin Named(r) => r.entities[k] = d.entities[k]

Decides(t, d, r) == TurnOK(t, r) /\ Keeps(d, r) /\ r.stage # "unsent"

(* A reply without a run, asking nothing, asking or asking again.          *)
AsksRightly(t, d, s, p) ==
    p # "none" => s = "completed" /\ (\/ p = t /\ Unresolved(d.request) # {}
                                      \/ p = d.loaded)

LEMMA ReplyDecides ==
    ASSUME NEW t \in Turns, NEW d, Undecided(d),
           NEW s \in {"completed", "partial", "failed"}, NEW p \in Clarifications,
           AsksRightly(t, d, s, p)
    PROVE  Decides(t, d, Reply(d, s, p))
<1> DEFINE r == Reply(d, s, p)
<1>0. d \in TurnRecords
  BY DEF Undecided
<1>1. /\ r \in TurnRecords
      /\ r.stage = "done" /\ r.status = s /\ r.pending = p
      /\ r.request = d.request /\ r.scoped = d.scoped /\ r.loaded = d.loaded
      /\ r.entities = d.entities /\ r.plan = d.plan /\ r.settled = d.settled
  BY <1>0, ReplyFields
<1> HIDE DEF r
<1>2. Staged(r) /\ Fresh(r) /\ Resumed(r)
  BY <1>1 DEF Undecided, Staged, Fresh, Resumed
<1>3. Refers(t, r)
  BY <1>1 DEF Undecided, Refers, AsksRightly
<1>4. Keeps(d, r)
  BY <1>1 DEF Keeps
<1>5. Decides(t, d, r)
  BY <1>1, <1>2, <1>3, <1>4 DEF Decides, TurnOK
<1> QED
  BY <1>5 DEF r

(* The routes of explicit requests run with the context as it is.          *)
LEMMA ExplicitDecides ==
    ASSUME NEW t \in Turns, NEW d, Undecided(d), Content[d.request].explicit # "none"
    PROVE  Decides(t, d, RunWorkflow(d, d.request))
<1> DEFINE r == RunWorkflow(d, d.request)
<1>1. /\ r \in TurnRecords
      /\ r.stage = "running" /\ r.plan = d.request
      /\ r.request = d.request /\ r.scoped = d.scoped /\ r.loaded = d.loaded
      /\ r.entities = d.entities /\ r.settled = d.settled
      /\ r.status = d.status /\ r.pending = d.pending
  BY RunFields DEF Undecided
<1> HIDE DEF r
<1>2. Staged(r) /\ Fresh(r) /\ Resumed(r)
  BY <1>1 DEF Undecided, Staged, Fresh, Resumed
<1>3. Refers(t, r)
  BY <1>1 DEF Undecided, Refers
<1>4. Keeps(d, r)
  BY <1>1 DEF Keeps
<1>5. Decides(t, d, r)
  BY <1>1, <1>2, <1>3, <1>4 DEF Decides, TurnOK
<1> QED
  BY <1>5 DEF r

(* Resolved references, or the question which one was meant.               *)
LEMMA RoutedDecides ==
    ASSUME NEW t \in Turns, NEW d, Undecided(d), Content[d.request].explicit = "none"
    PROVE  Decides(t, d, Routed(t, d))
<1> DEFINE q == d.request
           mentions == Content[q].mentions
           e == Merge(d.entities, mentions)
           m == [d EXCEPT !.entities = e]
           stops == Content[q].intent = "general" \/ \E k \in Content[q].needs : m.entities[k] = "none"
           kinds == {mention.kind : mention \in Range(mentions)}
<1>1. d \in TurnRecords /\ q \in Requests /\ d.entities \in EntityContexts
  BY DEF Undecided, TurnRecords
<1>2. Routed(t, d) = IF Unresolved(q) # {} THEN Reply(d, "completed", t)
                     ELSE IF stops THEN Reply(m, "completed", "none")
                     ELSE RunWorkflow(m, q)
  BY DEF Routed
<1>3. CASE Unresolved(q) # {}
  <2>1. Decides(t, d, Reply(d, "completed", t))
    BY <1>3, ReplyDecides DEF Clarifications, AsksRightly
  <2> QED
    BY <1>2, <1>3, <2>1
<1>4. CASE Unresolved(q) = {}
  <2>1. /\ e \in EntityContexts
        /\ \A mention \in Range(mentions) :
              IsResolved(mention) /\ e[mention.kind] \in mention.means
        /\ \A k \in Kinds : k \notin kinds => e[k] = d.entities[k]
    BY <1>1, <1>4, MergeProperties
  <2> HIDE DEF e
  <2>2. /\ m \in TurnRecords
        /\ m.entities = e
        /\ m.stage = d.stage /\ m.request = q /\ m.scoped = d.scoped
        /\ m.loaded = d.loaded /\ m.plan = d.plan /\ m.settled = d.settled
        /\ m.status = d.status /\ m.pending = d.pending
    BY <1>1, <2>1, EntitiesFields
  <2> HIDE DEF m
  <2>3. Undecided(m)
    BY <2>2 DEF Undecided
  <2>4. \A r : r.request = q /\ r.entities = e =>
            \A k \in Kinds : k \notin Named(r) => r.entities[k] = d.entities[k]
    BY <2>1 DEF Named
  <2>5. CASE stops
    <3> DEFINE r == Reply(m, "completed", "none")
    <3>1. Decides(t, m, r)
      BY <2>3, ReplyDecides DEF Clarifications, AsksRightly
    <3>2. r.request = q /\ r.entities = e
      <4>1. "none" \in Clarifications
        BY DEF Clarifications
      <4>2. r.request = m.request /\ r.entities = m.entities
        BY <2>2, <4>1, ReplyFields
      <4> QED
        BY <2>2, <4>2
    <3>3. Decides(t, d, r)
      BY <2>2, <2>4, <3>1, <3>2 DEF Decides, Keeps
    <3> QED
      BY <1>2, <1>4, <2>5, <3>3
  <2>6. CASE ~stops
    <3> DEFINE r == RunWorkflow(m, q)
    <3>1. /\ r \in TurnRecords
          /\ r.stage = "running" /\ r.plan = q
          /\ r.request = q /\ r.scoped = d.scoped /\ r.loaded = d.loaded
          /\ r.entities = e /\ r.settled = "none"
          /\ r.status = "none" /\ r.pending = "none"
      BY <1>1, <2>2, <2>3, RunFields DEF Undecided
    <3> HIDE DEF r
    <3>2. Staged(r)
      BY <1>1, <3>1 DEF Staged
    <3>3. Refers(t, r)
      BY <2>2, <2>3, <3>1 DEF Undecided, Refers
    <3>4. Fresh(r) /\ Resumed(r)
      BY <2>1, <2>2, <2>6, <3>1 DEF Fresh, Resumed
    <3>5. Keeps(d, r)
      BY <2>4, <3>1 DEF Keeps
    <3>6. Decides(t, d, r)
      BY <3>1, <3>2, <3>3, <3>4, <3>5 DEF Decides, TurnOK
    <3> QED
      BY <1>2, <1>4, <2>6, <3>6 DEF r
  <2> QED
    BY <2>5, <2>6
<1> QED
  BY <1>3, <1>4

(* A turn that is no answer.                                               *)
LEMMA NewTopicDecides ==
    ASSUME NEW t \in Turns, NEW d, Undecided(d)
    PROVE  Decides(t, d, NewTopic(t, d))
<1> DEFINE content == Content[d.request]
<1>1. content.explicit \in {"none", "valid", "invalid"}
  BY RequestsAssumption DEF Undecided, Contents
<1>2. CASE content.explicit = "valid"
  BY <1>2, ExplicitDecides DEF NewTopic
<1>3. CASE content.explicit = "invalid"
  <2>1. Decides(t, d, Reply(d, "failed", "none"))
    BY ReplyDecides DEF Clarifications, AsksRightly
  <2> QED
    BY <1>3, <2>1 DEF NewTopic
<1>4. CASE content.explicit = "none" /\ content.mentions # <<>>
  <2> DEFINE r == [d EXCEPT !.stage = "routing"]
  <2>1. /\ r \in TurnRecords
        /\ r.stage = "routing"
        /\ r.entities = d.entities /\ r.request = d.request /\ r.scoped = d.scoped
        /\ r.loaded = d.loaded /\ r.plan = d.plan /\ r.settled = d.settled
        /\ r.status = d.status /\ r.pending = d.pending
    BY StageFields DEF Undecided, Stages
  <2>2. NewTopic(t, d) = r
    BY <1>4 DEF NewTopic
  <2> HIDE DEF r
  <2>3. Staged(r) /\ Fresh(r) /\ Resumed(r)
    BY <1>4, <2>1 DEF Undecided, Staged, Fresh, Resumed
  <2>4. Refers(t, r)
    BY <2>1 DEF Undecided, Refers
  <2>5. Keeps(d, r)
    BY <2>1 DEF Keeps
  <2> QED
    BY <2>1, <2>2, <2>3, <2>4, <2>5 DEF Decides, TurnOK
<1>5. CASE content.explicit = "none" /\ content.mentions = <<>>
  <2>1. NewTopic(t, d) = Routed(t, d)
    BY <1>5 DEF NewTopic
  <2> QED
    BY <1>5, <2>1, RoutedDecides
<1> QED
  BY <1>1, <1>2, <1>3, <1>4, <1>5

(* A turn that may be the answer to the clarification it loaded.           *)
LEMMA AnswerDecides ==
    ASSUME NEW t \in Turns, NEW d, Undecided(d),
           d.loaded # "none", Content[d.request].explicit = "none"
    PROVE  Decides(t, d, Answer(t, d))
<1> DEFINE answer == Content[d.request].answer
<1>1. answer \in {"cancel", "yes", "name", "other"}
  BY RequestsAssumption DEF Undecided, Contents
<1>2. d \in TurnRecords /\ d.loaded \in Clarifications
  BY DEF Undecided, TurnRecords
<1>3. CASE answer = "cancel"
  <2> DEFINE m == [d EXCEPT !.settled = d.loaded]
             r == Reply(m, "completed", "none")
  <2>1. /\ m \in TurnRecords
        /\ m.settled = d.loaded
        /\ m.stage = d.stage /\ m.entities = d.entities /\ m.request = d.request
        /\ m.scoped = d.scoped /\ m.loaded = d.loaded /\ m.plan = d.plan
        /\ m.status = d.status /\ m.pending = d.pending
    BY <1>2, SettledFields
  <2>2. Answer(t, d) = r
    BY <1>3 DEF Answer
  <2> HIDE DEF m
  <2>3. /\ r \in TurnRecords
        /\ r.stage = "done" /\ r.status = "completed" /\ r.pending = "none"
        /\ r.request = m.request /\ r.scoped = m.scoped /\ r.loaded = m.loaded
        /\ r.entities = m.entities /\ r.plan = m.plan /\ r.settled = m.settled
    BY <2>1, ReplyFields DEF Clarifications
  <2> HIDE DEF r
  <2>4. Staged(r) /\ Fresh(r) /\ Resumed(r)
    BY <2>1, <2>3 DEF Undecided, Staged, Fresh, Resumed
  <2>5. Refers(t, r)
    BY <2>1, <2>3 DEF Undecided, Refers
  <2>6. Keeps(d, r)
    BY <2>1, <2>3 DEF Keeps
  <2> QED
    BY <2>2, <2>3, <2>4, <2>5, <2>6 DEF Decides, TurnOK
<1>4. CASE answer = "yes" /\ ~SuggestsOne(d.loaded)
  <2>1. Decides(t, d, Reply(d, "completed", d.loaded))
    BY <1>2, ReplyDecides DEF AsksRightly
  <2> QED
    BY <1>4, <2>1 DEF Answer
<1>5. CASE (answer = "yes" /\ SuggestsOne(d.loaded)) \/ answer = "name"
  <2> DEFINE r == [d EXCEPT !.stage = "answering"]
  <2>1. /\ r \in TurnRecords
        /\ r.stage = "answering"
        /\ r.entities = d.entities /\ r.request = d.request /\ r.scoped = d.scoped
        /\ r.loaded = d.loaded /\ r.plan = d.plan /\ r.settled = d.settled
        /\ r.status = d.status /\ r.pending = d.pending
    BY <1>2, StageFields DEF Stages
  <2>2. Answer(t, d) = r
    BY <1>5 DEF Answer
  <2> HIDE DEF r
  <2>3. Staged(r) /\ Fresh(r) /\ Resumed(r)
    BY <2>1 DEF Undecided, Staged, Fresh, Resumed
  <2>4. Refers(t, r)
    BY <2>1 DEF Undecided, Refers
  <2>5. Keeps(d, r)
    BY <2>1 DEF Keeps
  <2> QED
    BY <2>1, <2>2, <2>3, <2>4, <2>5 DEF Decides, TurnOK
<1>6. CASE answer = "other"
  <2>1. Answer(t, d) = NewTopic(t, d)
    BY <1>6 DEF Answer
  <2> QED
    BY <2>1, NewTopicDecides
<1> QED
  BY <1>1, <1>3, <1>4, <1>5, <1>6

LEMMA StartedDecides ==
    ASSUME NEW t \in Turns, NEW d, Undecided(d)
    PROVE  Decides(t, d, Started(t, d))
<1>1. CASE Content[d.request].explicit = "none" /\ d.loaded # "none"
  BY <1>1, AnswerDecides DEF Started
<1>2. CASE ~(Content[d.request].explicit = "none" /\ d.loaded # "none")
  <2>1. Started(t, d) = NewTopic(t, d)
    BY <1>2 DEF Started
  <2> QED
    BY <2>1, NewTopicDecides
<1> QED
  BY <1>1, <1>2
-----------------------------------------------------------------------------
(* A set of natural numbers that is not empty has a least one.             *)
LEMMA MinIsLeast ==
    ASSUME NEW S \in SUBSET Nat, S # {}
    PROVE  Min(S) \in S /\ \A m \in S : Min(S) <= m
<1> DEFINE R == OpToRel(<, Nat)
<1>1. IsWellFoundedOn(R, Nat)
  BY NatLessThanWellFounded
<1>2. \A x, y \in Nat : x < y => <<x, y>> \in R
  BY DEF OpToRel
<1> HIDE DEF R
<1>3. PICK n \in S : \A m \in S : <<m, n>> \notin R
  BY <1>1, WFMin
<1>4. \A m \in S : ~(m < n)
  BY <1>2, <1>3
<1>5. \A m \in S : n <= m
  BY <1>4
<1> QED
  BY <1>5 DEF Min

(* What an asking turn offers is one of the references it could not        *)
(* resolve.                                                                *)
LEMMA OfferIsUnresolved ==
    ASSUME NEW a, AsksFor(a)
    PROVE  Offer(a) \in Mentions /\ ~IsResolved(Offer(a))
<1> DEFINE q == turn[a].request
           mentions == Content[q].mentions
<1>1. q \in Requests /\ Unresolved(q) # {}
  BY DEF AsksFor
<1>2. mentions \in Seq(Mentions)
  BY <1>1, RequestsAssumption DEF Contents
<1>3. Unresolved(q) \in SUBSET Nat /\ Unresolved(q) \subseteq 1..Len(mentions)
  BY <1>2, LenProperties DEF Unresolved
<1>4. Min(Unresolved(q)) \in Unresolved(q)
  BY <1>1, <1>3, MinIsLeast
<1>5. mentions[Min(Unresolved(q))] \in Mentions
  BY <1>2, <1>3, <1>4, ElementOfSeq
<1> QED
  BY <1>4, <1>5 DEF Offer, Unresolved

(* The run of the request asked about, for one of the students offered.    *)
LEMMA ResumedDecides ==
    ASSUME NEW t \in Turns, NEW d, Undecided(d), d.loaded # "none",
           NEW student \in Candidates(d.loaded)
    PROVE  Decides(t, d, [RunWorkflow(d, turn[d.loaded].request) EXCEPT
                             !.entities["STUDENT"] = student, !.settled = d.loaded])
<1> DEFINE q == turn[d.loaded].request
           m == RunWorkflow(d, q)
           e == [m.entities EXCEPT !["STUDENT"] = student]
           m2 == [m EXCEPT !.entities = e]
           r == [m2 EXCEPT !.settled = d.loaded]
<1>1. AsksFor(d.loaded) /\ q \in Requests
  BY DEF Undecided, AsksFor
<1>2. /\ Offer(d.loaded) \in Mentions
      /\ Offer(d.loaded).kind = "STUDENT"
      /\ student \in Offer(d.loaded).means
  BY <1>1, OfferIsUnresolved DEF Candidates
<1>3. student \in Entities
  BY <1>2 DEF Mentions
<1>4. /\ m \in TurnRecords
      /\ m.stage = "running" /\ m.plan = q
      /\ m.request = d.request /\ m.scoped = d.scoped /\ m.loaded = d.loaded
      /\ m.entities = d.entities /\ m.settled = d.settled
      /\ m.status = d.status /\ m.pending = d.pending
  BY <1>1, RunFields DEF Undecided
<1>5. d.loaded \in Clarifications /\ d.entities \in EntityContexts
  BY DEF Undecided, TurnRecords
<1>6. e \in EntityContexts /\ e["STUDENT"] = student
      /\ \A k \in Kinds : k # "STUDENT" => e[k] = d.entities[k]
  BY <1>3, <1>4, <1>5, KindsAssumption DEF EntityContexts
<1>7. [m EXCEPT !.entities["STUDENT"] = student, !.settled = d.loaded] = r
  BY <1>4 DEF TurnRecords
<1> HIDE DEF e, m
<1>8. /\ m2 \in TurnRecords
      /\ m2.entities = e
      /\ m2.stage = m.stage /\ m2.request = m.request /\ m2.scoped = m.scoped
      /\ m2.loaded = m.loaded /\ m2.plan = m.plan /\ m2.settled = m.settled
      /\ m2.status = m.status /\ m2.pending = m.pending
  BY <1>4, <1>6, EntitiesFields
<1> HIDE DEF m2
<1>9. /\ r \in TurnRecords
      /\ r.settled = d.loaded
      /\ r.stage = m2.stage /\ r.entities = m2.entities /\ r.request = m2.request
      /\ r.scoped = m2.scoped /\ r.loaded = m2.loaded /\ r.plan = m2.plan
      /\ r.status = m2.status /\ r.pending = m2.pending
  BY <1>5, <1>8, SettledFields
<1> HIDE DEF r
<1>10. Staged(r) /\ Fresh(r)
  BY <1>4, <1>8, <1>9 DEF Undecided, Staged, Fresh
<1>11. Resumed(r)
  BY <1>2, <1>4, <1>6, <1>8, <1>9 DEF Resumed
<1>12. Refers(t, r)
  BY <1>1, <1>4, <1>8, <1>9 DEF Undecided, Refers
<1>13. Keeps(d, r)
  BY <1>4, <1>6, <1>8, <1>9 DEF Keeps, Named
<1>14. Decides(t, d, r)
  BY <1>4, <1>8, <1>9, <1>10, <1>11, <1>12, <1>13 DEF Decides, TurnOK
<1> QED
  BY <1>7, <1>14 DEF m

(* At an await of entity resolution nothing is decided yet.                *)
LEMMA AwaitingIsUndecided ==
    ASSUME NEW t \in Turns, NEW d, TurnOK(t, d), d.stage \in {"answering", "routing"}
    PROVE  /\ Undecided(d) /\ Content[d.request].explicit = "none"
           /\ d.stage = "answering" => d.loaded # "none"
  BY DEF TurnOK, Staged, Refers, Undecided
-----------------------------------------------------------------------------
(* Keeping the newest messages keeps no message that was not there.        *)
LEMMA SuffixProperties ==
    ASSUME NEW S, NEW s \in Seq(S), NEW n \in Nat \ {0}, Len(s) > n
    PROVE  LET kept == SubSeq(s, Len(s) - n + 1, Len(s)) IN
           kept \in Seq(S) /\ Len(kept) = n /\ Range(kept) \subseteq Range(s)
<1> DEFINE from == Len(s) - n + 1
           kept == SubSeq(s, from, Len(s))
<1>1. Len(s) \in Nat /\ from \in 1..Len(s) /\ \A i \in 1..Len(s) : s[i] \in S
  BY LenProperties, ElementOfSeq
<1>2. /\ kept \in Seq(S)
      /\ Len(kept) = n
      /\ \A i \in 1..n : kept[i] = s[from + i - 1]
  <2>1. \A i \in from..Len(s) : s[i] \in S
    BY <1>1
  <2>2. Len(s) \in Int /\ from \in Int /\ from <= Len(s)
        /\ Len(s) - from + 1 = n
    BY <1>1
  <2> QED
    BY <2>1, <2>2, SubSeqProperties
<1>3. Range(kept) = {kept[i] : i \in 1..n} /\ Range(s) = {s[i] : i \in 1..Len(s)}
  BY <1>2, RangeEquality
<1>4. \A i \in 1..n : from + i - 1 \in 1..Len(s)
  BY <1>1
<1> QED
  BY <1>2, <1>3, <1>4

LEMMA NewestProperties ==
    ASSUME NEW s \in Seq(Messages)
    PROVE  Newest(s) \in Seq(Messages) /\ Range(Newest(s)) \subseteq Range(s)
<1>1. CASE Len(s) > MaxMessages
  BY <1>1, SuffixProperties, MaxMessagesAssumption DEF Newest
<1>2. CASE ~(Len(s) > MaxMessages)
  BY <1>2 DEF Newest
<1> QED
  BY <1>1, <1>2

(* The session history keeps its type and its limit.                       *)
LEMMA TrimProperties ==
    ASSUME NEW h \in Seq(Messages)
    PROVE  Trim(h) \in Seq(Messages) /\ Len(Trim(h)) <= MaxHistory
<1>1. CASE Len(h) > MaxHistory
  BY <1>1, SuffixProperties, LimitsAssumption DEF Trim
<1>2. CASE ~(Len(h) > MaxHistory)
  BY <1>2, LenProperties, LimitsAssumption DEF Trim
<1> QED
  BY <1>1, <1>2

LEMMA HistoryProperties ==
    ASSUME NEW h \in Seq(Messages), Len(h) <= MaxHistory, NEW t \in Turns
    PROVE  /\ Asked(h, t) \in Seq(Messages) /\ Len(Asked(h, t)) <= MaxHistory
           /\ Answered(h, t) \in Seq(Messages) /\ Len(Answered(h, t)) <= MaxHistory
<1>1. /\ [turn |-> t, role |-> "user"] \in Messages
      /\ [turn |-> t, role |-> "assistant"] \in Messages
  BY DEF Messages, Roles
<1>2. /\ Append(h, [turn |-> t, role |-> "user"]) \in Seq(Messages)
      /\ Append(h, [turn |-> t, role |-> "assistant"]) \in Seq(Messages)
  BY <1>1, AppendProperties
<1> QED
  BY <1>2, TrimProperties DEF Asked, Answered

(* Saving a turn adds nothing but its messages and leaves its context.     *)
LEMMA SaveProperties ==
    ASSUME memory \in [Scopes -> MemoryRecords], NEW t \in Turns,
           NEW c \in [entities : EntityContexts, pending : Clarifications],
           SaveTurn("chat", t, c)
    PROVE  /\ memory' \in [Scopes -> MemoryRecords]
           /\ memory'["chat"].context = c
           /\ \A message \in Range(memory'["chat"].messages) :
                 message \in Range(memory["chat"].messages) \/ message.turn = t
<1> DEFINE old == memory["chat"].messages
           new == Newest(old \o TurnMessages(t))
<1>1. "chat" \in Scopes /\ old \in Seq(Messages)
  BY OneConversation DEF MemoryRecords
<1>2. /\ TurnMessages(t) \in Seq(Messages)
      /\ \A message \in Range(TurnMessages(t)) : message.turn = t
  <2>1. /\ [turn |-> t, role |-> "user"] \in Messages
        /\ [turn |-> t, role |-> "assistant"] \in Messages
    BY DEF Messages, Roles
  <2>2. TurnMessages(t) \in Seq(Messages) /\ Len(TurnMessages(t)) = 2
    BY <2>1 DEF TurnMessages
  <2>3. Range(TurnMessages(t)) = {TurnMessages(t)[i] : i \in 1..2}
    BY <2>2, RangeEquality
  <2>4. \A i \in 1..2 : TurnMessages(t)[i].turn = t
    BY DEF TurnMessages
  <2> QED
    BY <2>2, <2>3, <2>4
<1>3. /\ old \o TurnMessages(t) \in Seq(Messages)
      /\ Range(old \o TurnMessages(t)) = Range(old) \cup Range(TurnMessages(t))
  BY <1>1, <1>2, ConcatProperties, RangeConcatenation
<1>4. new \in Seq(Messages) /\ Range(new) \subseteq Range(old) \cup Range(TurnMessages(t))
  BY <1>3, NewestProperties
<1>5. memory' = [memory EXCEPT !["chat"] = [messages |-> new, context |-> c]]
  BY DEF SaveTurn
<1> HIDE DEF new
<1>6. memory'["chat"] = [messages |-> new, context |-> c]
  BY <1>1, <1>5
<1>7. [messages |-> new, context |-> c] \in MemoryRecords
  BY <1>4 DEF MemoryRecords
<1>8. memory' \in [Scopes -> MemoryRecords]
  BY <1>5, <1>7
<1>9. memory'["chat"].context = c /\ memory'["chat"].messages = new
  BY <1>6
<1> QED
  BY <1>2, <1>4, <1>8, <1>9

(* While turns that asked are left alone, what is said of a record stays.  *)
AskersStay == \A a \in Turns : AsksFor(a) => AsksFor(a)' /\ turn'[a] = turn[a]

LEMMA TurnOKStays ==
    ASSUME NEW u \in Turns, NEW d, TurnOK(u, d), AskersStay
    PROVE  TurnOK(u, d)'
<1>1. d \in TurnRecords /\ d.loaded \in Clarifications
  BY DEF TurnOK, TurnRecords
<1>2. d.loaded # "none" => d.loaded \in Turns /\ AsksFor(d.loaded)
  BY <1>1 DEF TurnOK, Refers, Clarifications
<1>3. d.settled # "none" => d.settled \in Turns /\ AsksFor(d.settled)
  BY <1>2 DEF TurnOK, Refers
<1>4. Refers(u, d)'
  BY <1>2 DEF TurnOK, Refers, AskersStay
<1>5. Resumed(d)'
  BY <1>3 DEF TurnOK, Resumed, AskersStay, Offer
<1>6. Staged(d)' /\ Fresh(d)'
  BY DEF TurnOK, Staged, Fresh
<1> QED
  BY <1>1, <1>4, <1>5, <1>6 DEF TurnOK

LEMMA AskersStayed ==
    ASSUME turn \in [Turns -> TurnRecords], NEW t \in Turns, NEW r,
           turn[t].stage # "done", turn' = [turn EXCEPT ![t] = r]
    PROVE  AskersStay
<1>1. \A a \in Turns : AsksFor(a) => a # t /\ turn'[a] = turn[a]
  BY DEF AsksFor
<1>2. \A a \in Turns : AsksFor(a) => AsksFor(a)'
  BY <1>1 DEF AsksFor
<1> QED
  BY <1>1, <1>2 DEF AskersStay
-----------------------------------------------------------------------------
(* What must be known of a turn that becomes r for the step to be right.   *)
Sound(t, r, fault) ==
    /\ turn[t].stage \notin {"done", "raised"}
    /\ TurnOK(t, r) /\ r.stage # "unsent"
    /\ ~disturbed /\ ~fault => Active \subseteq {t} /\ Follows(r)

(* Saving what a turn ended with, or leaving the memory as it is, keeps    *)
(* what is said of the memory.                                             *)
LEMMA BecomesMemory ==
    ASSUME IInv, NEW t \in Turns, NEW r, NEW h, NEW fault \in BOOLEAN,
           Sound(t, r, fault), Becomes(t, r, h, fault)
    PROVE  /\ memory' \in [Scopes -> MemoryRecords]
           /\ disturbed' \in BOOLEAN
           /\ ~disturbed' => ~disturbed /\ ~fault
           /\ \/ /\ r.stage = "done" /\ r.status \in {"completed", "partial"}
                 /\ Context' = [entities |-> r.entities, pending |-> r.pending]
                 /\ \A message \in Range(memory'["chat"].messages) :
                       message \in Range(memory["chat"].messages) \/ message.turn = t
              \/ /\ memory' = memory
                 /\ ~disturbed' => r.status \notin {"completed", "partial"}
<1> DEFINE saves == r.stage = "done" /\ r.scoped /\ r.status \in {"completed", "partial"}
           c == [entities |-> r.entities, pending |-> r.pending]
<1>1. memory \in [Scopes -> MemoryRecords] /\ disturbed \in BOOLEAN
  BY DEF IInv
<1>2. /\ r.entities \in EntityContexts /\ r.pending \in Clarifications
      /\ r.status # "none" => r.stage = "done"
  BY DEF Sound, TurnOK, TurnRecords, Staged
<1>3. c \in [entities : EntityContexts, pending : Clarifications]
  BY <1>2
<1>4. \/ saves /\ SaveTurn("chat", t, c) /\ disturbed' = (disturbed \/ fault)
      \/ saves /\ UNCHANGED memory /\ disturbed' = TRUE
      \/ ~saves /\ UNCHANGED memory /\ disturbed' = (disturbed \/ fault)
  BY DEF Becomes
<1>5. /\ disturbed' \in BOOLEAN
      /\ ~disturbed' => ~disturbed /\ ~fault
  BY <1>1, <1>4
<1>6. ~disturbed' => r.scoped
  BY <1>5 DEF Sound, Follows
<1>7. CASE saves /\ SaveTurn("chat", t, c)
  <2>1. /\ memory' \in [Scopes -> MemoryRecords]
        /\ memory'["chat"].context = c
        /\ \A message \in Range(memory'["chat"].messages) :
              message \in Range(memory["chat"].messages) \/ message.turn = t
    BY <1>1, <1>3, <1>7, SaveProperties
  <2>2. Context' = c
    BY <2>1 DEF Context
  <2> QED
    BY <1>4, <1>5, <1>7, <2>1, <2>2
<1>8. CASE saves /\ UNCHANGED memory /\ disturbed' = TRUE
  BY <1>1, <1>5, <1>8
<1>9. CASE ~saves /\ UNCHANGED memory /\ disturbed' = (disturbed \/ fault)
  <2>1. ~disturbed' => r.status \notin {"completed", "partial"}
    BY <1>2, <1>6, <1>9
  <2> QED
    BY <1>1, <1>5, <1>9, <2>1
<1> QED
  BY <1>4, <1>7, <1>8, <1>9

(* A step in which one turn goes on keeps the invariant, and undisturbed   *)
(* it replaces only entities that turn names.                              *)
LEMMA BecomesKeeps ==
    ASSUME IInv, NEW t \in Turns, NEW r, NEW h, NEW fault \in BOOLEAN,
           h \in Seq(Messages), Len(h) <= MaxHistory,
           Sound(t, r, fault), Becomes(t, r, h, fault)
    PROVE  IInv' /\ (~disturbed' => OthersKept)
<1> DEFINE saved == /\ r.stage = "done" /\ r.status \in {"completed", "partial"}
                    /\ Context' = [entities |-> r.entities, pending |-> r.pending]
           kept == /\ memory' = memory
                   /\ ~disturbed' => r.status \notin {"completed", "partial"}
<1>1. /\ memory' \in [Scopes -> MemoryRecords]
      /\ disturbed' \in BOOLEAN
      /\ ~disturbed' => ~disturbed /\ ~fault
      /\ \/ /\ saved
            /\ \A message \in Range(memory'["chat"].messages) :
                  message \in Range(memory["chat"].messages) \/ message.turn = t
         \/ kept
  BY BecomesMemory
<1>2. turn \in [Turns -> TurnRecords] /\ \A u \in Turns : TurnOK(u, turn[u])
  BY DEF IInv
<1>3. turn[t].stage # "done" /\ TurnOK(t, r) /\ r \in TurnRecords
  BY DEF Sound, TurnOK
<1>4. turn' = [turn EXCEPT ![t] = r] /\ turn' \in [Turns -> TurnRecords]
  BY <1>2, <1>3 DEF Becomes
<1>5. turn'[t] = r /\ \A u \in Turns : u # t => turn'[u] = turn[u]
  BY <1>2, <1>4
<1>6. AskersStay
  BY <1>2, <1>3, <1>4, AskersStayed
<1>7. \A u \in Turns : TurnOK(u, turn[u])'
  <2> SUFFICES ASSUME NEW u \in Turns PROVE TurnOK(u, turn[u])'
    OBVIOUS
  <2>1. CASE u = t
    <3>1. TurnOK(t, r)
      BY <1>3
    <3> QED
      BY <1>5, <1>6, <2>1, <3>1, TurnOKStays
  <2>2. CASE u # t
    <3>1. TurnOK(u, turn[u])
      BY <1>2
    <3> QED
      BY <1>5, <1>6, <2>2, <3>1, TurnOKStays
  <2> QED
    BY <2>1, <2>2
<1>8. history' \in Seq(Messages) /\ Len(history') <= MaxHistory
  BY HistoryProperties DEF Becomes
<1>9. \A message \in Range(memory["chat"].messages) :
         message.turn \in Turns /\ message.turn # t
         /\ turn[message.turn].status \in {"completed", "partial"}
  <2>1. memory["chat"].messages \in Seq(Messages)
    BY OneConversation DEF IInv, MemoryRecords
  <2>2. Range(memory["chat"].messages) \in SUBSET Messages
    BY <2>1, RangeOfSeq
  <2>3. \A message \in Messages : message.turn \in Turns
    BY DEF Messages
  <2>4. turn[t].status \notin {"completed", "partial"}
    BY <1>2, <1>3 DEF TurnOK, Staged
  <2> QED
    BY <2>2, <2>3, <2>4 DEF IInv
<1>10. \A message \in Range(memory'["chat"].messages) :
          turn'[message.turn].status \in {"completed", "partial"}
  BY <1>1, <1>5, <1>9
<1>11. Context'.pending # "none" => AsksFor(Context.pending)'
  <2>1. CASE saved
    <3> SUFFICES ASSUME r.pending # "none" PROVE AsksFor(r.pending)'
      BY <2>1
    <3>1. CASE r.pending = t /\ Unresolved(r.request) # {}
      <4>1. r.status = "completed" /\ r.plan = "none" /\ r.request \in Requests
        BY <1>3 DEF Sound, TurnOK, Refers, Staged
      <4> QED
        BY <1>5, <2>1, <3>1, <4>1 DEF AsksFor
    <3>2. CASE r.pending = r.loaded
      <4>1. r.loaded \in Turns /\ AsksFor(r.loaded)
        BY <1>3, <3>2 DEF TurnOK, Refers, TurnRecords, Clarifications
      <4> QED
        BY <1>6, <3>2, <4>1 DEF AskersStay
    <3> QED
      BY <1>3, <3>1, <3>2 DEF TurnOK, Refers
  <2>2. CASE kept
    <3>1. Context' = Context
      BY <2>2 DEF Context
    <3>2. Context.pending \in Clarifications
      BY OneConversation DEF IInv, MemoryRecords, Context
    <3> SUFFICES ASSUME Context.pending # "none" PROVE AsksFor(Context.pending)'
      BY <3>1
    <3>3. Context.pending \in Turns /\ AsksFor(Context.pending)
      BY <3>2 DEF IInv, Clarifications
    <3> QED
      BY <1>6, <3>1, <3>3 DEF AskersStay
  <2> QED
    BY <1>1, <2>1, <2>2
<1>12. OneAtATime'
  <2> SUFFICES ASSUME ~disturbed'
               PROVE  /\ \A u, v \in Active' : u = v
                      /\ \A u \in Active' : Follows(turn[u])'
    BY DEF OneAtATime
  <2>1. Active \subseteq {t} /\ Follows(r)
    BY <1>1 DEF Sound
  <2>2. Active' \subseteq {t}
    BY <1>5, <2>1 DEF Active
  <2>3. ASSUME t \in Active' PROVE Follows(turn[t])'
    <3>1. r.stage # "done"
      BY <1>5, <2>3 DEF Active
    <3>2. memory' = memory
      BY <1>1, <3>1
    <3>3. Context' = Context
      BY <3>2 DEF Context
    <3> QED
      BY <1>5, <2>1, <3>3 DEF Follows, Named
  <2> QED
    BY <2>2, <2>3
<1>13. SettledStaysSettled'
  <2> SUFFICES ASSUME ~disturbed', NEW u \in Turns, turn'[u].settled # "none",
                      turn'[u].status \in {"completed", "partial"},
                      Context'.pending # "none"
               PROVE  Context'.pending # turn'[u].settled
    BY DEF SettledStaysSettled, Context
  <2>1. ~disturbed /\ Follows(r)
    BY <1>1 DEF Sound
  <2>2. ASSUME u # t
        PROVE  /\ turn[u].settled = turn'[u].settled /\ turn[u].settled # t
               /\ Context.pending # "none" => Context.pending # turn[u].settled
    <3>1. turn'[u] = turn[u]
      BY <1>5, <2>2
    <3>2. AsksFor(turn[u].settled)
      BY <1>2, <3>1 DEF TurnOK, Refers
    <3>3. turn[u].settled # t
      BY <1>3, <3>2 DEF AsksFor
    <3>4. SettledStaysSettled
      BY DEF IInv
    <3> QED
      BY <2>1, <3>1, <3>3, <3>4 DEF SettledStaysSettled, Context
  <2>3. CASE saved
    <3>1. r.pending # "none" => r.settled = "none"
      BY <1>3 DEF TurnOK, Refers
    <3>2. u # t
      BY <1>5, <2>3, <3>1
    <3>3. r.pending = t \/ r.pending = r.loaded
      BY <1>3, <2>3 DEF TurnOK, Refers
    <3>4. r.loaded = Context.pending
      BY <2>1 DEF Follows
    <3> QED
      BY <2>2, <2>3, <3>2, <3>3, <3>4
  <2>4. CASE kept
    <3>1. Context' = Context
      BY <2>4 DEF Context
    <3>2. u # t
      BY <1>5, <2>4
    <3> QED
      BY <2>2, <3>1, <3>2
  <2> QED
    BY <1>1, <2>3, <2>4
<1>14. ASSUME ~disturbed' PROVE OthersKept
  <2>1. Follows(r)
    BY <1>1, <1>14 DEF Sound
  <2>2. CASE saved
    <3> SUFFICES ASSUME NEW k \in Kinds,
                        memory'["chat"].context.entities[k] # memory["chat"].context.entities[k]
                 PROVE  turn'[t] # turn[t] /\ k \in Named(turn'[t])
      BY DEF OthersKept, Named
    <3>1. r.entities[k] # Context.entities[k]
      BY <2>2 DEF Context
    <3>2. k \in Named(r)
      BY <2>1, <3>1 DEF Follows
    <3>3. r # turn[t]
      BY <1>3, <2>2
    <3> QED
      BY <1>5, <3>2, <3>3
  <2>3. CASE kept
    BY <2>3 DEF OthersKept
  <2> QED
    BY <1>1, <2>2, <2>3
<1>15. IInv'
  BY <1>1, <1>4, <1>7, <1>8, <1>10, <1>11, <1>12, <1>13 DEF IInv
<1> QED
  BY <1>14, <1>15
-----------------------------------------------------------------------------
(* What a turn decides on keeps following the conversation's context.      *)
LEMMA DecidedIsSound ==
    ASSUME NEW t \in Turns, NEW d, NEW r, NEW fault, Undecided(d), Decides(t, d, r),
           turn[t].stage \notin {"done", "raised"},
           ~disturbed /\ ~fault => Active \subseteq {t} /\ Follows(d)
    PROVE  Sound(t, r, fault)
<1>1. ASSUME Follows(d) PROVE Follows(r)
  <2>1. \A k \in Kinds : k \notin Named(r) => k \notin Named(d)
    BY DEF Decides, Keeps, Undecided, Named
  <2> QED
    BY <1>1, <2>1 DEF Follows, Decides, Keeps
<1> QED
  BY <1>1 DEF Sound, Decides

(* A turn being processed without any disturbance is the only one.         *)
LEMMA AloneAndFollowing ==
    ASSUME IInv, NEW t \in Turns, turn[t].stage \in {"answering", "routing", "running"},
           ~disturbed
    PROVE  Active \subseteq {t} /\ Follows(turn[t])
<1>1. t \in Active
  BY DEF Active
<1> QED
  BY <1>1 DEF IInv, OneAtATime

(* The record of a turn that has not started.                              *)
LEMMA UnsentFields ==
    /\ Unsent \in TurnRecords
    /\ Unsent.plan = "none" /\ Unsent.settled = "none"
    /\ Unsent.pending = "none" /\ Unsent.status = "none"
  BY DEF Unsent, TurnRecords, Stages, Clarifications, EntityContexts, NoEntities

LEMMA ReceiveKeeps ==
    ASSUME IInv, NEW t \in Turns, NEW q \in Requests, Receive(t, q)
    PROVE  IInv' /\ (~disturbed' => OthersKept)
<1>1. PICK scoped \in BOOLEAN, loads \in BOOLEAN :
         LET context == IF scoped /\ loads THEN Context ELSE EmptyContext
             d == [Unsent EXCEPT !.request = q, !.scoped = scoped,
                      !.loaded = context.pending, !.entities = context.entities]
         IN  Becomes(t, Started(t, d), Asked(history, t), Active # {} \/ ~scoped \/ ~loads)
  BY DEF Receive, Context
<1> DEFINE context == IF scoped /\ loads THEN Context ELSE EmptyContext
           d == [Unsent EXCEPT !.request = q, !.scoped = scoped,
                    !.loaded = context.pending, !.entities = context.entities]
           fault == Active # {} \/ ~scoped \/ ~loads
<1>2. /\ Context.entities \in EntityContexts /\ Context.pending \in Clarifications
      /\ Context.pending # "none" => AsksFor(Context.pending)
  BY OneConversation DEF IInv, MemoryRecords, Context
<1>3. EmptyContext.entities \in EntityContexts /\ EmptyContext.pending = "none"
  BY DEF EmptyContext, NoEntities, EntityContexts
<1>4. /\ context.entities \in EntityContexts /\ context.pending \in Clarifications
      /\ context.pending # "none" => AsksFor(context.pending)
  BY <1>2, <1>3 DEF Clarifications
<1>5. ~fault => context = Context /\ scoped
  OBVIOUS
<1> HIDE DEF context
<1>6. /\ d \in TurnRecords
      /\ d.request = q /\ d.scoped = scoped /\ d.loaded = context.pending
      /\ d.entities = context.entities /\ d.plan = "none" /\ d.settled = "none"
      /\ d.pending = "none" /\ d.status = "none"
  <2> DEFINE l == context.pending
             e == context.entities
  <2>1. l \in Clarifications /\ e \in EntityContexts
    BY <1>4
  <2> HIDE DEF l, e
  <2>2. LET r == [Unsent EXCEPT !.request = q, !.scoped = scoped, !.loaded = l, !.entities = e]
        IN  /\ r \in TurnRecords
            /\ r.request = q /\ r.scoped = scoped /\ r.loaded = l /\ r.entities = e
            /\ r.plan = "none" /\ r.settled = "none"
            /\ r.pending = "none" /\ r.status = "none"
    BY <2>1, UnsentFields DEF TurnRecords
  <2> QED
    BY <2>2 DEF l, e
<1> HIDE DEF d
<1>9. Undecided(d)
  BY <1>4, <1>6 DEF Undecided
<1>10. ~fault => Active \subseteq {t} /\ Follows(d)
  BY <1>5, <1>6 DEF Follows
<1>11. fault \in BOOLEAN /\ turn[t].stage = "unsent"
  BY DEF Receive
<1>12. Becomes(t, Started(t, d), Asked(history, t), fault)
  BY <1>1 DEF context, d
<1> HIDE DEF fault
<1>13. Sound(t, Started(t, d), fault)
  BY <1>9, <1>10, <1>11, StartedDecides, DecidedIsSound
<1>14. Asked(history, t) \in Seq(Messages) /\ Len(Asked(history, t)) <= MaxHistory
  BY HistoryProperties DEF IInv
<1> QED
  BY <1>11, <1>12, <1>13, <1>14, BecomesKeeps

(* A step from an await of entity resolution to what it decides.           *)
LEMMA AwaitedKeeps ==
    ASSUME IInv, NEW t \in Turns, turn[t].stage \in {"answering", "routing"},
           NEW r, Decides(t, turn[t], r), Becomes(t, r, history, FALSE)
    PROVE  IInv' /\ (~disturbed' => OthersKept)
<1>1. TurnOK(t, turn[t])
  BY DEF IInv
<1>2. Undecided(turn[t])
  BY <1>1, AwaitingIsUndecided
<1>3. ~disturbed => Active \subseteq {t} /\ Follows(turn[t])
  BY AloneAndFollowing
<1>4. Sound(t, r, FALSE)
  BY <1>2, <1>3, DecidedIsSound
<1>5. history \in Seq(Messages) /\ Len(history) <= MaxHistory
  BY DEF IInv
<1> QED
  BY <1>4, <1>5, BecomesKeeps

LEMMA ResolveAnswerKeeps ==
    ASSUME IInv, NEW t \in Turns, ResolveAnswer(t)
    PROVE  IInv' /\ (~disturbed' => OthersKept)
<1> DEFINE d == turn[t]
           candidates == Candidates(d.loaded)
           resumed(student) ==
               [RunWorkflow(d, turn[d.loaded].request) EXCEPT
                   !.entities["STUDENT"] = student, !.settled = d.loaded]
<1>1. d.stage = "answering"
  BY DEF ResolveAnswer
<1>2. PICK means :
         Becomes(t, IF Cardinality(means) = 1 /\ means \subseteq candidates
                    THEN resumed(CHOOSE student \in means : TRUE)
                    ELSE Reply(d, "completed", d.loaded),
                 history, FALSE)
  BY DEF ResolveAnswer
<1>3. Undecided(d) /\ d.loaded # "none" /\ d.loaded \in Clarifications
  <2>1. TurnOK(t, d)
    BY DEF IInv
  <2> QED
    BY <1>1, <2>1, AwaitingIsUndecided DEF TurnOK, TurnRecords
<1>4. CASE Cardinality(means) = 1 /\ means \subseteq candidates
  <2> DEFINE student == CHOOSE student \in means : TRUE
  <2>1. student \in candidates
    BY <1>4, TheOnlyOne
  <2>2. Becomes(t, resumed(student), history, FALSE)
    BY <1>2, <1>4
  <2> HIDE DEF student
  <2>3. Decides(t, d, resumed(student))
    BY <1>3, <2>1, ResumedDecides
  <2> HIDE DEF resumed
  <2> QED
    BY <1>1, <2>2, <2>3, AwaitedKeeps
<1>5. CASE ~(Cardinality(means) = 1 /\ means \subseteq candidates)
  <2>1. Decides(t, d, Reply(d, "completed", d.loaded))
    BY <1>3, ReplyDecides DEF AsksRightly
  <2>2. Becomes(t, Reply(d, "completed", d.loaded), history, FALSE)
    BY <1>2, <1>5
  <2> QED
    BY <1>1, <2>1, <2>2, AwaitedKeeps
<1> QED
  BY <1>4, <1>5

LEMMA ResolveMentionsKeeps ==
    ASSUME IInv, NEW t \in Turns, ResolveMentions(t)
    PROVE  IInv' /\ (~disturbed' => OthersKept)
<1>1. turn[t].stage = "routing" /\ Becomes(t, Routed(t, turn[t]), history, FALSE)
  BY DEF ResolveMentions
<1>2. TurnOK(t, turn[t])
  BY DEF IInv
<1>3. Decides(t, turn[t], Routed(t, turn[t]))
  BY <1>1, <1>2, AwaitingIsUndecided, RoutedDecides
<1> QED
  BY <1>1, <1>3, AwaitedKeeps

LEMMA RoutingRaisesKeeps ==
    ASSUME IInv, NEW t \in Turns, RoutingRaises(t)
    PROVE  IInv' /\ (~disturbed' => OthersKept)
<1>1. turn[t].stage = "routing" /\ Becomes(t, Reply(turn[t], "failed", "none"), history, FALSE)
  BY DEF RoutingRaises
<1>2. TurnOK(t, turn[t])
  BY DEF IInv
<1>3. Undecided(turn[t])
  BY <1>1, <1>2, AwaitingIsUndecided
<1>4. Decides(t, turn[t], Reply(turn[t], "failed", "none"))
  BY <1>3, ReplyDecides DEF Clarifications, AsksRightly
<1> QED
  BY <1>1, <1>4, AwaitedKeeps

(* The workflow ends: what ran is still what the record says.              *)
LEMMA WorkflowEndsKeeps ==
    ASSUME IInv, NEW t \in Turns, WorkflowEnds(t)
    PROVE  IInv' /\ (~disturbed' => OthersKept)
<1> DEFINE d == turn[t]
<1>1. d.stage = "running"
  BY DEF WorkflowEnds
<1>2. PICK s \in {"completed", "partial", "failed"} :
         Becomes(t, Reply(d, s, "none"), history, FALSE)
  BY DEF WorkflowEnds
<1> DEFINE r == Reply(d, s, "none")
<1>3. TurnOK(t, d) /\ d \in TurnRecords
  BY DEF IInv, TurnOK
<1>4. /\ r \in TurnRecords
      /\ r.stage = "done" /\ r.status = s /\ r.pending = "none"
      /\ r.request = d.request /\ r.scoped = d.scoped /\ r.loaded = d.loaded
      /\ r.entities = d.entities /\ r.plan = d.plan /\ r.settled = d.settled
  BY <1>3, ReplyFields, SMTT(30) DEF Clarifications
<1> HIDE DEF r
<1>5. Staged(r) /\ Refers(t, r)
  BY <1>1, <1>3, <1>4 DEF TurnOK, Staged, Refers
<1>6. Fresh(r)
  BY <1>3, <1>4 DEF TurnOK, Fresh
<1>7. Resumed(r)
  BY <1>3, <1>4 DEF TurnOK, Resumed
<1>8. ~disturbed => Active \subseteq {t} /\ Follows(d)
  BY <1>1, AloneAndFollowing
<1>9. ASSUME Follows(d) PROVE Follows(r)
  BY <1>4, <1>9 DEF Follows, Named
<1>10. Sound(t, r, FALSE)
  BY <1>1, <1>4, <1>5, <1>6, <1>7, <1>8, <1>9 DEF Sound, TurnOK
<1>11. history \in Seq(Messages) /\ Len(history) <= MaxHistory
  BY DEF IInv
<1>12. Becomes(t, r, history, FALSE)
  BY <1>2 DEF r
<1> QED
  BY <1>10, <1>11, <1>12, BecomesKeeps
(* Turns being processed that are given up leave nothing behind.           *)
LEMMA StopKeeps ==
    ASSUME IInv, NEW S \in SUBSET Active,
           turn' = [u \in Turns |-> IF u \in S THEN [turn[u] EXCEPT !.stage = "raised"]
                                    ELSE turn[u]],
           UNCHANGED <<memory, disturbed>>,
           history' \in Seq(Messages), Len(history') <= MaxHistory
    PROVE  IInv'
<1> DEFINE stopped(u) == [turn[u] EXCEPT !.stage = "raised"]
<1>1. turn \in [Turns -> TurnRecords] /\ \A u \in Turns : TurnOK(u, turn[u])
  BY DEF IInv
<1>2. \A u \in Turns : turn'[u] = IF u \in S THEN stopped(u) ELSE turn[u]
  OBVIOUS
<1>3. \A u \in S : u \in Turns /\ turn[u].stage \in {"answering", "routing", "running"}
  BY DEF Active
<1>4. ASSUME NEW u \in S
      PROVE  /\ stopped(u) \in TurnRecords
             /\ stopped(u).stage = "raised" /\ stopped(u).status = "none"
             /\ turn[u].status = "none"
             /\ TurnOK(u, stopped(u))
  <2> DEFINE d == turn[u]
             r == stopped(u)
  <2>1. d \in TurnRecords /\ TurnOK(u, d) /\ d.stage \in {"answering", "routing", "running"}
    BY <1>1, <1>3
  <2>2. /\ r \in TurnRecords
        /\ r.stage = "raised"
        /\ r.entities = d.entities /\ r.request = d.request /\ r.scoped = d.scoped
        /\ r.loaded = d.loaded /\ r.plan = d.plan /\ r.settled = d.settled
        /\ r.status = d.status /\ r.pending = d.pending
    BY <2>1, StageFields DEF Stages
  <2> HIDE DEF r
  <2>3. d.status = "none"
    BY <2>1 DEF TurnOK, Staged
  <2>4. Staged(r) /\ Refers(u, r)
    BY <2>1, <2>2, <2>3 DEF TurnOK, Staged, Refers
  <2>5. Fresh(r)
    BY <2>1, <2>2 DEF TurnOK, Fresh
  <2>6. Resumed(r)
    BY <2>1, <2>2 DEF TurnOK, Resumed
  <2>7. TurnOK(u, r)
    BY <2>2, <2>4, <2>5, <2>6 DEF TurnOK
  <2> QED
    BY <2>2, <2>3, <2>7 DEF r
<1> HIDE DEF stopped
<1>5. turn' \in [Turns -> TurnRecords]
  <2>1. turn' = [u \in Turns |-> turn'[u]]
    BY DEF stopped
  <2>2. \A u \in Turns : turn'[u] \in TurnRecords
    BY <1>1, <1>2, <1>4
  <2> QED
    BY <2>1, <2>2
<1>6. \A a \in Turns : AsksFor(a) => turn'[a] = turn[a]
  BY <1>2, <1>3 DEF AsksFor
<1>7. AskersStay
  <2>1. \A a \in Turns : AsksFor(a) => AsksFor(a)'
    BY <1>6 DEF AsksFor
  <2> QED
    BY <1>6, <2>1 DEF AskersStay
<1>8. \A u \in Turns : TurnOK(u, turn[u])'
  <2> SUFFICES ASSUME NEW u \in Turns PROVE TurnOK(u, turn[u])'
    OBVIOUS
  <2>1. CASE u \in S
    <3>1. TurnOK(u, stopped(u)) /\ turn'[u] = stopped(u)
      BY <1>2, <1>4, <2>1
    <3> QED
      BY <1>7, <3>1, TurnOKStays
  <2>2. CASE u \notin S
    <3>1. TurnOK(u, turn[u]) /\ turn'[u] = turn[u]
      BY <1>1, <1>2, <2>2
    <3> QED
      BY <1>7, <3>1, TurnOKStays
  <2> QED
    BY <2>1, <2>2
<1>9. \A message \in Range(memory'["chat"].messages) :
         turn'[message.turn].status \in {"completed", "partial"}
  <2>1. memory["chat"].messages \in Seq(Messages)
    BY OneConversation DEF IInv, MemoryRecords
  <2>2. Range(memory["chat"].messages) \in SUBSET Messages
    BY <2>1, RangeOfSeq
  <2>3. \A message \in Messages : message.turn \in Turns
    BY DEF Messages
  <2>4. \A message \in Range(memory["chat"].messages) :
           message.turn \in Turns /\ turn[message.turn].status \in {"completed", "partial"}
    BY <2>2, <2>3 DEF IInv
  <2> QED
    BY <1>2, <1>4, <2>4
<1>10. Context' = Context
  BY DEF Context
<1>11. Context'.pending # "none" => AsksFor(Context.pending)'
  <2>1. Context.pending \in Clarifications
    BY OneConversation DEF IInv, MemoryRecords, Context
  <2>2. Context.pending # "none" => AsksFor(Context.pending)
    BY DEF IInv
  <2> QED
    BY <1>7, <1>10, <2>1, <2>2 DEF AskersStay, Clarifications
<1>12. Active' \subseteq Active /\ \A u \in Active' : turn'[u] = turn[u]
  BY <1>2, <1>4 DEF Active
<1>13. OneAtATime'
  <2>1. OneAtATime
    BY DEF IInv
  <2>2. \A u \in Active' : Follows(turn[u]) => Follows(turn[u])'
    BY <1>10, <1>12 DEF Follows, Named
  <2> QED
    BY <1>12, <2>1, <2>2 DEF OneAtATime
<1>14. SettledStaysSettled'
  <2>1. SettledStaysSettled
    BY DEF IInv
  <2>2. \A u \in Turns : turn'[u].status \in {"completed", "partial"} => turn'[u] = turn[u]
    BY <1>2, <1>4
  <2> QED
    BY <2>1, <2>2 DEF SettledStaysSettled
<1>15. memory' \in [Scopes -> MemoryRecords] /\ disturbed' \in BOOLEAN
  BY DEF IInv
<1> QED
  BY <1>5, <1>8, <1>9, <1>11, <1>13, <1>14, <1>15 DEF IInv

LEMMA AnswerRaisesKeeps ==
    ASSUME IInv, NEW t \in Turns, AnswerRaises(t)
    PROVE  IInv'
<1>1. {t} \in SUBSET Active
  BY DEF AnswerRaises, Active
<1>2. turn' = [u \in Turns |-> IF u \in {t} THEN [turn[u] EXCEPT !.stage = "raised"]
                               ELSE turn[u]]
  <2>1. turn \in [Turns -> TurnRecords]
    BY DEF IInv
  <2> QED
    BY <2>1 DEF AnswerRaises
<1>3. UNCHANGED <<memory, disturbed>> /\ history' \in Seq(Messages) /\ Len(history') <= MaxHistory
  BY DEF AnswerRaises, IInv
<1> QED
  BY <1>1, <1>2, <1>3, StopKeeps

LEMMA RestartKeeps ==
    ASSUME IInv, Restart
    PROVE  IInv'
<1>1. << >> \in Seq(Messages) /\ Len(<< >>) <= MaxHistory
  BY LimitsAssumption
<1>2. /\ turn' = [u \in Turns |-> IF u \in Active THEN [turn[u] EXCEPT !.stage = "raised"]
                                  ELSE turn[u]]
      /\ UNCHANGED <<memory, disturbed>>
      /\ history' = << >>
  BY DEF Restart
<1> QED
  BY <1>1, <1>2, StopKeeps

LEMMA DeleteSessionKeeps ==
    ASSUME IInv, DeleteSession
    PROVE  IInv'
<1>1. UNCHANGED <<memory, turn, disturbed>> /\ history' = << >>
  BY DEF DeleteSession
<1>2. << >> \in Seq(Messages) /\ Len(<< >>) <= MaxHistory
  BY LimitsAssumption
<1>3. Active' = Active /\ Context' = Context
  BY <1>1 DEF Active, Context
<1>4. AskersStay
  BY <1>1 DEF AskersStay, AsksFor
<1>5. \A u \in Turns : TurnOK(u, turn[u])'
  BY <1>1, <1>4, TurnOKStays DEF IInv
<1>6. Context'.pending # "none" => AsksFor(Context.pending)'
  BY <1>1, <1>3 DEF IInv, AsksFor
<1>7. OneAtATime' /\ SettledStaysSettled'
  BY <1>1, <1>3 DEF IInv, OneAtATime, Follows, SettledStaysSettled, Named
<1> QED
  BY <1>1, <1>2, <1>5, <1>6, <1>7 DEF IInv
-----------------------------------------------------------------------------
(* The initial state satisfies the invariant.                              *)
LEMMA InitIInv == Init => IInv
<1> SUFFICES ASSUME Init PROVE IInv
  OBVIOUS
<1>1. NoEntities \in EntityContexts /\ EmptyContext.pending = "none"
      /\ EmptyContext \in [entities : EntityContexts, pending : Clarifications]
  BY DEF EmptyContext, NoEntities, EntityContexts, Clarifications
<1>2. /\ << >> \in Seq(Messages) /\ Len(<< >>) = 0 /\ Range(<< >>) = {}
  BY DEF Range
<1>3. /\ memory = [s \in Scopes |-> [messages |-> << >>, context |-> EmptyContext]]
      /\ turn = [t \in Turns |-> Unsent] /\ history = << >> /\ disturbed = FALSE
  BY EmptyAssumption DEF Init, MemoryInit
<1>4. memory \in [Scopes -> MemoryRecords]
  BY <1>1, <1>2, <1>3 DEF MemoryRecords
<1>5. memory["chat"].messages = << >> /\ Context = EmptyContext
  BY <1>3, OneConversation DEF Context
<1>6. \A t \in Turns : turn[t] = Unsent /\ Unsent.stage = "unsent" /\ Unsent.loaded = "none"
  BY <1>3 DEF Unsent
<1>7. \A t \in Turns : TurnOK(t, turn[t])
  BY <1>6, UnsentFields DEF TurnOK, Staged, Refers, Fresh, Resumed
<1>8. turn \in [Turns -> TurnRecords]
  BY <1>3, UnsentFields
<1>9. OneAtATime
  BY <1>6 DEF OneAtATime, Active
<1>10. SettledStaysSettled
  BY <1>6, UnsentFields DEF SettledStaysSettled
<1>11. Len(history) <= MaxHistory
  BY <1>2, <1>3, LimitsAssumption
<1> QED
  BY <1>1, <1>2, <1>3, <1>4, <1>5, <1>7, <1>8, <1>9, <1>10, <1>11 DEF IInv

(* Every step keeps it, and undisturbed replaces only what a turn names.   *)
LEMMA NextIInv == IInv /\ [Next]_vars => IInv' /\ (~disturbed' => OthersKept \/ UNCHANGED vars)
<1> SUFFICES ASSUME IInv, [Next]_vars
             PROVE  IInv' /\ (~disturbed' => OthersKept \/ UNCHANGED vars)
  OBVIOUS
<1>1. ASSUME UNCHANGED memory PROVE OthersKept
  BY <1>1 DEF OthersKept
<1>2. ASSUME NEW t \in Turns, NEW q \in Requests, Receive(t, q)
      PROVE  IInv' /\ (~disturbed' => OthersKept)
  BY <1>2, ReceiveKeeps
<1>3. ASSUME NEW t \in Turns, ResolveAnswer(t)
      PROVE  IInv' /\ (~disturbed' => OthersKept)
  BY <1>3, ResolveAnswerKeeps
<1>4. ASSUME NEW t \in Turns, AnswerRaises(t)
      PROVE  IInv' /\ OthersKept
  BY <1>1, <1>4, AnswerRaisesKeeps DEF AnswerRaises
<1>5. ASSUME NEW t \in Turns, ResolveMentions(t)
      PROVE  IInv' /\ (~disturbed' => OthersKept)
  BY <1>5, ResolveMentionsKeeps
<1>6. ASSUME NEW t \in Turns, RoutingRaises(t)
      PROVE  IInv' /\ (~disturbed' => OthersKept)
  BY <1>6, RoutingRaisesKeeps
<1>7. ASSUME NEW t \in Turns, WorkflowEnds(t)
      PROVE  IInv' /\ (~disturbed' => OthersKept)
  BY <1>7, WorkflowEndsKeeps
<1>8. CASE DeleteSession
  BY <1>1, <1>8, DeleteSessionKeeps DEF DeleteSession
<1>9. CASE Restart
  BY <1>1, <1>9, RestartKeeps DEF Restart
<1>10. CASE UNCHANGED vars
  <2>1. /\ UNCHANGED <<memory, turn, history, disturbed>>
        /\ Active' = Active /\ Context' = Context
    BY <1>10 DEF vars, Active, Context
  <2>2. AskersStay
    BY <2>1 DEF AskersStay, AsksFor
  <2>3. \A u \in Turns : TurnOK(u, turn[u])'
    BY <2>1, <2>2, TurnOKStays DEF IInv
  <2>4. Context'.pending # "none" => AsksFor(Context.pending)'
    BY <2>1 DEF IInv, AsksFor
  <2>5. OneAtATime' /\ SettledStaysSettled'
    BY <2>1 DEF IInv, OneAtATime, Follows, SettledStaysSettled, Named
  <2> QED
    BY <1>10, <2>1, <2>3, <2>4, <2>5 DEF IInv
<1> QED
  BY <1>2, <1>3, <1>4, <1>5, <1>6, <1>7, <1>8, <1>9, <1>10 DEF Next

(* The invariant holds in every reachable state.                           *)
THEOREM ConversationInvariant == Spec => []IInv
<1>1. Init => IInv
  BY InitIInv
<1>2. IInv /\ [Next]_vars => IInv'
  BY NextIInv
<1> QED
  BY <1>1, <1>2, PTL DEF Spec

(* Every reachable state has the types the module declares, the history    *)
(* never exceeding its limit included.                                     *)
THEOREM ConversationTypes == Spec => []TypeOK
<1>1. IInv => TypeOK
  BY OneConversation DEF IInv, TypeOK, MemoryRecords
<1> QED
  BY <1>1, ConversationInvariant, PTL

(* Whatever the messages mean and however turns overlap, a request that    *)
(* runs at once runs with exactly the entities it names.                   *)
THEOREM RunsAreGrounded == Spec => []FreshRunsAreGrounded
<1>1. IInv => FreshRunsAreGrounded
  <2> SUFFICES ASSUME IInv, NEW t \in Turns, Ran(t), turn[t].settled = "none",
                      Content[turn[t].request].explicit = "none"
               PROVE  /\ turn[t].plan = turn[t].request
                      /\ \A mention \in PlanMentions(t) : IsResolved(mention) /\ Honours(t, mention)
                      /\ \A k \in Content[turn[t].plan].needs : turn[t].entities[k] # "none"
    BY DEF FreshRunsAreGrounded
  <2>1. Fresh(turn[t])
    BY DEF IInv, TurnOK
  <2> QED
    BY <2>1 DEF Fresh, Ran, PlanMentions, Honours
<1> QED
  BY <1>1, ConversationInvariant, PTL

(* An answered clarification runs what was asked about, for one of the     *)
(* students that were offered, however many turns lie between.             *)
THEOREM AnswersAreHonoured == Spec => []ResumedRunsAnswer
<1>1. IInv => ResumedRunsAnswer
  <2> SUFFICES ASSUME IInv, NEW t \in Turns, Ran(t), turn[t].settled # "none"
               PROVE  LET asker == turn[t].settled
                      IN  /\ turn[t].plan = turn[asker].request
                          /\ ~Ran(asker) /\ turn[asker].status = "completed"
                          /\ Offer(asker).kind = "STUDENT"
                          /\ Honours(t, Offer(asker))
    BY DEF ResumedRunsAnswer
  <2>1. Resumed(turn[t]) /\ Refers(t, turn[t])
    BY DEF IInv, TurnOK
  <2>2. AsksFor(turn[t].settled)
    BY <2>1 DEF Refers
  <2> QED
    BY <2>1, <2>2 DEF Resumed, AsksFor, Ran, Honours
<1> QED
  BY <1>1, ConversationInvariant, PTL

(* What is remembered comes from turns that were answered, and what is     *)
(* pending was asked.                                                      *)
THEOREM MemoryIsEarned == Spec => []MemoryIsOfAnsweredTurns
<1>1. IInv => MemoryIsOfAnsweredTurns
  BY DEF IInv, MemoryIsOfAnsweredTurns, Context, AsksFor, Ran
<1> QED
  BY <1>1, ConversationInvariant, PTL

(* Without overlap and with a store that works, no clarification comes     *)
(* back once it is answered or cancelled.                                  *)
THEOREM ClarificationsEnd == Spec => []SettledStaysSettled
<1>1. IInv => SettledStaysSettled
  BY DEF IInv
<1> QED
  BY <1>1, ConversationInvariant, PTL

(* Without overlap and with a store that works, the conversation keeps     *)
(* every entity the turn that ends does not name.                          *)
THEOREM ContextIsKept == Spec => UndisturbedTurnsKeepContext
<1>1. IInv /\ [Next]_vars => [~disturbed' => OthersKept]_vars
  BY NextIInv
<1> QED
  BY <1>1, ConversationInvariant, PTL DEF Spec, UndisturbedTurnsKeepContext
=============================================================================
