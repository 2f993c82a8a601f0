------------------------- MODULE MCConversationTurns -------------------------
(* A conversation about three students, two of them called Anna, and two   *)
(* courses; the requests are the ones of the end-to-end tests by shape.    *)
EXTENDS ConversationTurns, TLC

CONSTANTS t1, t2, t3

ThreeTurns == {t1, t2, t3}
Same == Permutations(Turns)

MCKinds == {"STUDENT", "COURSE"}
MCEntities == {"anna1", "anna2", "matias", "dii", "web"}
ChatScope == {"chat"}

\* Every branch of process_message.
MixedRequests ==
    {"show matias", "which course", "did anna pass dii", "did matias pass it",
     "how is matais", "is matias ahead", "how is she", "anna one", "anna", "yes",
     "cancel", "explicit", "explicit unknown"}

\* Enough for the two disagreements with the documentation.
CoreRequests ==
    {"show matias", "show web", "did anna pass dii", "how is she", "anna one"}

MCNoContext == EmptyContext
MCContexts == [entities : EntityContexts, pending : Clarifications]

Mention(kind, means) == [kind |-> kind, means |-> means, suggested |-> FALSE]
Question(needs, mentions) ==
    [explicit |-> "none", answer |-> "other", named |-> {}, intent |-> "academic",
     needs |-> needs, mentions |-> mentions]
SmallTalk(answer, named) ==
    [explicit |-> "none", answer |-> answer, named |-> named, intent |-> "general",
     needs |-> {}, mentions |-> <<>>]

Anna == {"anna1", "anna2"}

MCContent ==
  [r \in MixedRequests \cup CoreRequests |->
    CASE r = "show matias"          -> Question({"STUDENT"}, <<Mention("STUDENT", {"matias"})>>)
      [] r = "show web"             -> Question({"COURSE"}, <<Mention("COURSE", {"web"})>>)
      [] r = "which course"         -> Question({"COURSE"}, <<Mention("COURSE", {"dii", "web"})>>)
      [] r = "did anna pass dii"    ->
            Question(MCKinds, <<Mention("STUDENT", Anna), Mention("COURSE", {"dii"})>>)
      [] r = "did matias pass it"   -> Question(MCKinds, <<Mention("STUDENT", {"matias"})>>)
      [] r = "how is matais"        ->   \* misspelt: one suggestion
            Question({"STUDENT"}, <<[Mention("STUDENT", {"matias"}) EXCEPT !.suggested = TRUE]>>)
      [] r = "is matias ahead"      ->   \* a question whose words pass for a name
            [Question({"STUDENT"}, <<Mention("STUDENT", {"matias"})>>) EXCEPT !.answer = "name"]
      [] r = "how is she"           -> Question({"STUDENT"}, <<>>)
      [] r = "anna one"             -> SmallTalk("name", {"anna1"})
      [] r = "anna"                 -> SmallTalk("name", Anna)
      [] r = "yes"                  -> SmallTalk("yes", {})
      [] r = "cancel"               -> SmallTalk("cancel", {})
      [] r = "explicit"             -> [Question({"STUDENT"}, <<>>) EXCEPT !.explicit = "valid"]
      [] r = "explicit unknown"     -> [Question({"STUDENT"}, <<>>) EXCEPT !.explicit = "invalid"]]

CoreContent == [r \in CoreRequests |-> MCContent[r]]
MixedContent == [r \in MixedRequests |-> MCContent[r]]
=============================================================================
