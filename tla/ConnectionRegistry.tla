-------------------------- MODULE ConnectionRegistry -------------------------
(***************************************************************************)
(* What the connection manager and the counted references promise, without *)
(* counters, lists or locks: who holds which object, which objects are     *)
(* members of the registry, and that an object is reclaimed exactly when   *)
(* nobody holds it any more.                                               *)
(*                                                                         *)
(* An object is a member while Registrar is among its holders.             *)
(***************************************************************************)
EXTENDS Integers, FiniteSets

CONSTANTS
  Objects,    \* what is registered
  Agents,     \* who may hold an object
  Sharers,    \* the agents that need no lookup: another holder vouches for them
  Registrar,  \* the registry itself, as a holder
  Capacity    \* the largest number of members

VARIABLES
  accepting,  \* new members are admitted
  holders,    \* who holds each object
  reclaimed   \* the objects that are gone

vars == <<accepting, holders, reclaimed>>

Members == {o \in Objects : Registrar \in holders[o]}

(* Of the objects some may be there from the beginning, each held by the agent
   that created it. *)
Init ==
  /\ accepting = TRUE
  /\ holders \in [Objects -> {{}} \cup {{a} : a \in Agents}]
  /\ reclaimed = {}

(* An object is created by the agent that will hold it first. *)
Create(o, a) ==
  /\ holders[o] = {}
  /\ o \notin reclaimed
  /\ holders' = [holders EXCEPT ![o] = {a}]
  /\ UNCHANGED <<accepting, reclaimed>>

(* An object that somebody holds becomes a member, if the registry accepts
   members and has room. *)
Admit(o) ==
  /\ accepting
  /\ Cardinality(Members) < Capacity
  /\ o \notin Members
  /\ holders[o] # {}
  /\ holders' = [holders EXCEPT ![o] = @ \cup {Registrar}]
  /\ UNCHANGED <<accepting, reclaimed>>

(* An agent gets hold of members, and of members only. *)
Acquire(a, S) ==
  /\ S # {}
  /\ S \subseteq Members
  /\ holders' = [o \in Objects |-> IF o \in S THEN holders[o] \cup {a} ELSE holders[o]]
  /\ UNCHANGED <<accepting, reclaimed>>

(* A sharer gets hold of an object that somebody else holds, member or not. *)
Share(o, a) ==
  /\ holders[o] # {}
  /\ holders' = [holders EXCEPT ![o] = @ \cup {a}]
  /\ UNCHANGED <<accepting, reclaimed>>

(* A holder lets go; the last one to do so reclaims the object. *)
Drop(o, h) ==
  /\ h \in holders[o]
  /\ holders' = [holders EXCEPT ![o] = @ \ {h}]
  /\ reclaimed' = IF holders[o] = {h} THEN reclaimed \cup {o} ELSE reclaimed
  /\ UNCHANGED accepting

Switch ==
  /\ accepting' = ~accepting
  /\ UNCHANGED <<holders, reclaimed>>

Next ==
  \/ \E o \in Objects, a \in Agents : Create(o, a) \/ Drop(o, a)
  \/ \E o \in Objects : Admit(o) \/ Drop(o, Registrar)
  \/ \E a \in Agents, S \in SUBSET Objects : Acquire(a, S)
  \/ \E o \in Objects, a \in Sharers : Share(o, a)
  \/ Switch

Spec == Init /\ [][Next]_vars

=============================================================================
