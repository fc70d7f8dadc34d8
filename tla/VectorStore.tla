----------------------------- MODULE VectorStore ----------------------------
(***************************************************************************)
(* What the embedding service promises its callers: a set of pairs of an   *)
(* id and a text, in which a call puts or removes one id, in one step and  *)
(* at most once.  EmbedService implements it with two arrays, a lock and   *)
(* background threads; LiveIndex, where the calls are made, implements it  *)
(* with a function, and with what a caller sees go wrong.                  *)
(***************************************************************************)
CONSTANTS Calls, Walks, Ids, Texts

VARIABLES
    store,      \* the pairs
    call,       \* each call: not made, under way, or over
    walks,      \* the rebuilds under way
    serving     \* the service is there

vars == <<store, call, walks, serving>>

NotMade == [op |-> "none"]
Over == [op |-> "over"]
Puts == [op : {"add"}, id : Ids, text : Texts]
Removals == [op : {"remove"}, id : Ids]
UnderWay == Puts \cup Removals

Init ==
    /\ store \subseteq Ids \X Texts
    /\ call = [c \in Calls |-> NotMade]
    /\ walks = {}
    /\ serving \in BOOLEAN

Without(id) == {e \in store : e[1] # id}

(* A caller sends a call, or does without.                                 *)
Send(c) ==
    /\ call[c] = NotMade
    /\ call' = [call EXCEPT ![c] = call'[c]]
    /\ call'[c] \in {Over} \cup UnderWay
    /\ UNCHANGED <<store, walks, serving>>

Add(c) ==
    /\ serving /\ call[c] \in Puts
    /\ store' = Without(call[c].id) \cup {<<call[c].id, call[c].text>>}
    /\ call' = [call EXCEPT ![c] = Over]
    /\ UNCHANGED <<walks, serving>>

Remove(c) ==
    /\ serving /\ call[c] \in Removals
    /\ store' = Without(call[c].id)
    /\ call' = [call EXCEPT ![c] = Over]
    /\ UNCHANGED <<walks, serving>>

(* A call is lost, and nobody repeats it.                                  *)
Lose(c) ==
    /\ call[c] \in UnderWay
    /\ call' = [call EXCEPT ![c] = Over]
    /\ UNCHANGED <<store, walks, serving>>

(* A caller that uses its turn to start a rebuild sends no other call.     *)
Begin(w) ==
    /\ serving /\ w \notin walks
    /\ walks' = walks \cup {w}
    /\ \/ UNCHANGED call
       \/ \E c \in Calls : call[c] = NotMade /\ call' = [call EXCEPT ![c] = Over]
    /\ UNCHANGED <<store, serving>>

Abandon(w) ==
    /\ w \in walks
    /\ walks' = walks \ {w}
    /\ UNCHANGED <<store, call, serving>>

(* The files have been read: each id has one text at most.                 *)
Rebuild(w) ==
    /\ serving /\ w \in walks
    /\ walks' = walks \ {w}
    /\ store' \subseteq Ids \X Texts
    /\ \A e, f \in store' : e[1] = f[1] => e = f
    /\ UNCHANGED <<call, serving>>

(* The service stops, with the calls it had not carried out, and starts    *)
(* with nothing and a rebuild, or with what it finds.                      *)
Stop ==
    /\ serving /\ ~serving'
    /\ store' = {} /\ walks' = {}
    /\ call' = [c \in Calls |-> IF call[c] = NotMade THEN NotMade ELSE Over]

Start ==
    /\ ~serving /\ serving'
    /\ \/ store' = {} /\ \E w \in Walks : walks' = {w}
       \/ store' \subseteq Ids \X Texts /\ walks' = {}
    /\ UNCHANGED call

Next ==
    \/ \E c \in Calls : Send(c) \/ Add(c) \/ Remove(c) \/ Lose(c)
    \/ \E w \in Walks : Begin(w) \/ Abandon(w) \/ Rebuild(w)
    \/ Stop \/ Start

Spec == Init /\ [][Next]_vars
=============================================================================
