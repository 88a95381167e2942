-------------------------------- MODULE PairSet --------------------------------
(***************************************************************************)
(* What the backend promises about likes (a video and a user) and tags of  *)
(* a video (a video and a tag): one set of pairs, changed by calls that    *)
(* each take effect at one moment and are answered truthfully.  An error   *)
(* promises nothing about its own pair, and pairs go with what they name.  *)
(***************************************************************************)
CONSTANTS Pairs, Callers, Unanswered

VARIABLES pairs, answer

Answers == [kind: {"add", "remove"}, pair: Pairs, says: {"done", "refused", "error"}]

PInit ==
    /\ pairs = {}
    /\ answer = [c \in Callers |-> Unanswered]

(* What a call has done to the pairs when it says x.                       *)
Effect(x) ==
    \/ /\ x.kind = "add" /\ x.says = "done"
       /\ x.pair \notin pairs
       /\ pairs' = pairs \cup {x.pair}
    \/ /\ x.kind = "add" /\ x.says = "refused"
       /\ x.pair \in pairs
       /\ pairs' = pairs
    \/ /\ x.kind = "remove" /\ x.says = "done"
       /\ pairs' = pairs \ {x.pair}
    \/ /\ x.kind = "remove" /\ x.says = "refused"
       /\ x.pair \notin pairs
       /\ pairs' = pairs
    \/ /\ x.says = "error"
       /\ pairs' \in {pairs, IF x.kind = "add" THEN pairs \cup {x.pair}
                                             ELSE pairs \ {x.pair}}

(* A call is answered, once.                                               *)
Return(c) ==
    /\ answer[c] = Unanswered
    /\ answer'[c] \in Answers
    /\ answer' = [answer EXCEPT ![c] = answer'[c]]
    /\ Effect(answer'[c])

(* A video or a tag is deleted, and its pairs with it.                     *)
Purged == pairs' \subseteq pairs /\ answer' = answer

PNext == Purged \/ \E c \in Callers : Return(c)

PSpec == PInit /\ [][PNext]_<<pairs, answer>>
=============================================================================
