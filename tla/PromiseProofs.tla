---------------------------- MODULE PromiseProofs ----------------------------
(***************************************************************************)
(* What follows from the abstract specifications themselves, and so holds, *)
(* through the refinements, of the programs that implement them.           *)
(***************************************************************************)
EXTENDS TLAPS

CONSTANTS Conn, ClientId, SessionId, NoClient, NoSession, Request

VARIABLES phase, holder, stage, granted, known, life

Registry == INSTANCE SessionRegistry
Shake    == INSTANCE Handshake
Life     == INSTANCE Callbacks WITH phase <- life

-----------------------------------------------------------------------------
(* SessionRegistry.                                                        *)

\* Of the sessions the registry ever issued, a client has at most one that is
\* registered: two processes that both found no row cannot both insert theirs.
THEOREM RegisteredOncePerClient ==
  Registry!Spec => [](Registry!TypeOK /\ Registry!OnePerClient)
<1> DEFINE Inv == Registry!TypeOK /\ Registry!OnePerClient
<1> USE DEF Registry!TypeOK, Registry!OnePerClient, Registry!Registered, Registry!Phase
<1>1. Registry!Init => Inv
  BY DEF Registry!Init
<1>2. Inv /\ [Registry!Next]_Registry!registryVars => Inv'
  <2> SUFFICES ASSUME Inv, [Registry!Next]_Registry!registryVars PROVE Inv'
    OBVIOUS
  <2>1. ASSUME NEW s \in SessionId, NEW id \in ClientId, Registry!Issue(s, id) PROVE Inv'
    BY <2>1 DEF Registry!Issue
  <2>2. ASSUME NEW s \in SessionId, Registry!Register(s) PROVE Inv'
    BY <2>2 DEF Registry!Register
  <2>3. ASSUME NEW s \in SessionId, Registry!Retire(s) PROVE Inv'
    BY <2>3 DEF Registry!Retire
  <2>4. CASE Registry!RetireAll
    BY <2>4 DEF Registry!RetireAll
  <2>5. CASE UNCHANGED Registry!registryVars
    BY <2>5 DEF Registry!registryVars
  <2> QED
    BY <2>1, <2>2, <2>3, <2>4, <2>5 DEF Registry!Next
<1> QED
  BY <1>1, <1>2, PTL DEF Registry!Spec

-----------------------------------------------------------------------------
(* Handshake.                                                              *)

\* Clients that have gone in agree with the server on a session, and no two of
\* them have the same one.
THEOREM SessionsAreOwn ==
  Shake!Spec => [](Shake!TypeOK /\ Shake!OwnSessions)
<1> DEFINE Distinct == \A c, d \in Conn : granted[c] # NoSession /\ granted[c] = granted[d] => c = d
           Agreed   == \A c \in Conn : stage[c] = "in" => known[c] = granted[c] /\ granted[c] # NoSession
           Inv      == Shake!TypeOK /\ Distinct /\ Agreed
<1> USE DEF Shake!TypeOK, Shake!Stage
<1>1. Shake!Init => Inv
  BY DEF Shake!Init
<1>2. Inv /\ [Shake!Next]_Shake!handshakeVars => Inv'
  <2> SUFFICES ASSUME Inv, [Shake!Next]_Shake!handshakeVars PROVE Inv'
    OBVIOUS
  <2>1. ASSUME NEW c \in Conn, Shake!Ask(c) PROVE Inv'
    BY <2>1 DEF Shake!Ask
  <2>2. ASSUME NEW c \in Conn, NEW s \in SessionId, Shake!Grant(c, s) PROVE Inv'
    BY <2>2 DEF Shake!Grant
  <2>3. ASSUME NEW c \in Conn, Shake!Enter(c) PROVE Inv'
    BY <2>3 DEF Shake!Enter
  <2>4. ASSUME NEW c \in Conn, Shake!Leave(c) PROVE Inv'
    BY <2>4 DEF Shake!Leave
  <2>5. CASE UNCHANGED Shake!handshakeVars
    BY <2>5 DEF Shake!handshakeVars
  <2> QED
    BY <2>1, <2>2, <2>3, <2>4, <2>5 DEF Shake!Next
<1>3. Inv => Shake!TypeOK /\ Shake!OwnSessions
  BY DEF Shake!OwnSessions
<1> QED
  BY <1>1, <1>2, <1>3, PTL DEF Shake!Spec

-----------------------------------------------------------------------------
(* Callbacks.                                                              *)

\* No two callbacks run at once, and each runs after those that have run.
THEOREM CallbacksRunInOrder == Life!Spec => [](Life!TypeOK /\ Life!InOrder)
<1> DEFINE Inv == Life!TypeOK /\ Life!InOrder
<1> USE DEF Life!TypeOK, Life!InOrder, Life!Phase
<1>1. Life!Init => Inv
  BY DEF Life!Init
<1>2. Inv /\ [Life!Next]_life => Inv'
  <2> SUFFICES ASSUME Inv, [Life!Next]_life PROVE Inv'
    OBVIOUS
  <2>1. ASSUME NEW r \in Request, Life!Send(r) \/ Life!Register(r) \/ Life!Finish(r) PROVE Inv'
    BY <2>1 DEF Life!Send, Life!Register, Life!Finish, Life!Advance
  <2>2. ASSUME NEW r \in Request, Life!Run(r) PROVE Inv'
    BY <2>2 DEF Life!Run, Life!Advance
  <2>3. CASE Life!End
    BY <2>3 DEF Life!End
  <2>4. CASE UNCHANGED life
    BY <2>4
  <2> QED
    BY <2>1, <2>2, <2>3, <2>4 DEF Life!Next
<1> QED
  BY <1>1, <1>2, PTL DEF Life!Spec
=============================================================================
