------------------------------ MODULE MCCommunity ------------------------------
(***************************************************************************)
(* Engagement and CommentRooms on small instances.  They share no variable *)
(* here (each has its own copy of the owners), so that a behaviour of both *)
(* would show nothing that one of either does not: a behaviour is one of   *)
(* the part chosen at its start.  CommentRooms is two parts: requests that *)
(* race in the database while nobody watches, and fewer requests of one    *)
(* user with clients that watch.                                           *)
(***************************************************************************)
EXTENDS Engagement, CommentRooms, FiniteSets, TLC

CONSTANT MaxPosts     \* bound: requests while clients watch

VARIABLE part

One == CHOOSE u \in Users : TRUE

CommunityInit ==
    \/ /\ part = "likes" /\ EInit
       /\ CInit /\ uploader = [v \in Videos |-> None]
       /\ watch = [k \in Clients |-> CHOOSE v \in Videos : TRUE]
    \/ /\ part = "comments" /\ CInit
       /\ watch = [k \in Clients |-> CHOOSE v \in Videos : TRUE]
       /\ EInit /\ owner = [v \in Videos |-> None]
    \/ /\ part = "rooms" /\ CInit /\ uploader = [v \in Videos |-> One]
       /\ EInit /\ owner = [v \in Videos |-> None]

Posts(r) ==
    /\ Handles(r)
    /\ call'[r].u = One
    /\ Cardinality({q \in Requests : call'[q] # NoCall}) <= MaxPosts

CommunityNext ==
    \/ part = "likes" /\ ENext /\ UNCHANGED <<part, cvars>>
    \/ part = "comments" /\ (\E r \in Requests : Handles(r)) /\ UNCHANGED <<part, evars>>
    \/ /\ part = "rooms"
       /\ (\E r \in Requests : Posts(r)) \/ (\E k \in Clients : Watches(k))
       /\ UNCHANGED <<part, evars>>

CommunitySpec == CommunityInit /\ [][CommunityNext]_<<part, evars, cvars>>

(* Every variable of both modules has its type.                            *)
CommunityTypeOK == ETypeOK /\ CTypeOK

(* Next treats all videos alike; only the parts that are not chosen name   *)
(* one.  It does not treat all users alike.                                *)
Symmetry == Permutations(Requests) \cup Permutations(Clients) \cup Permutations(Videos)
=============================================================================
