---------------------------- MODULE ZoneDirectory ----------------------------
(***************************************************************************)
(* What the ILM's directory of zones promises to the rest of the cloud:    *)
(* at any time a zone is run by one game server or waits for one, and      *)
(* apart from joins and losses the only zone that changes hands is the     *)
(* zone of the current migration, between the two servers of that          *)
(* migration.                                                              *)
(***************************************************************************)
EXTENDS Naturals

CONSTANTS Zone, Server, NoServer

VARIABLES
  holder,         \* the server that runs each zone, NoServer when it waits
  zone, from, to  \* the migration in progress; zone = 0 when there is none

dirState == <<holder, zone, from, to>>

DirInit ==
  /\ holder = [z \in Zone |-> NoServer]
  /\ zone = 0 /\ from = NoServer /\ to = NoServer

\* A server that runs nothing takes some of the waiting zones, but never
\* while a migration is in progress.
Grant(s) ==
  /\ zone = 0
  /\ \A z \in Zone : holder[z] # s
  /\ \E G \in SUBSET {z \in Zone : holder[z] = NoServer} :
        holder' = [z \in Zone |-> IF z \in G THEN s ELSE holder[z]]
  /\ UNCHANGED <<zone, from, to>>

\* A server is lost: all its zones wait, and a migration loses its party.
Release(s) ==
  /\ holder' = [z \in Zone |-> IF holder[z] = s THEN NoServer ELSE holder[z]]
  /\ from' = IF from = s THEN NoServer ELSE from
  /\ to' = IF to = s THEN NoServer ELSE to
  /\ UNCHANGED zone

Begin(z, f, t) ==
  /\ zone = 0 /\ f # t /\ holder[z] = f
  /\ zone' = z /\ from' = f /\ to' = t
  /\ UNCHANGED holder

\* The zone of the migration goes from one of its parties to the other;
\* both exist.
Move ==
  /\ zone # 0 /\ NoServer \notin {from, to}
  /\ \/ holder[zone] = from /\ holder' = [holder EXCEPT ![zone] = to]
     \/ holder[zone] = to   /\ holder' = [holder EXCEPT ![zone] = from]
  /\ UNCHANGED <<zone, from, to>>

End ==
  /\ zone # 0
  /\ zone' = 0 /\ from' = NoServer /\ to' = NoServer
  /\ UNCHANGED holder

DirNext ==
  \/ Move \/ End
  \/ \E s \in Server : Grant(s) \/ Release(s)
  \/ \E z \in Zone, f, t \in Server : Begin(z, f, t)

DirSpec == DirInit /\ [][DirNext]_dirState
=============================================================================
