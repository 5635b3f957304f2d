-------------------------------- MODULE DbStore --------------------------------
(***************************************************************************)
(* What a cellar promises of the databases it holds, whatever it does with *)
(* their files: a database is created with some content; every statement   *)
(* it acknowledges is there afterwards; it goes when it is removed, and    *)
(* only then.  Nothing else changes a database: not a rest, an eviction, a *)
(* restore, a crash or a restart.                                          *)
(***************************************************************************)
EXTENDS Integers

CONSTANT Db

VARIABLE content  \* content[d]: the writes in d, Absent where there is no d

Absent == -1

StoreInit == content = [d \in Db |-> Absent]

\* A new database, empty or a copy of what another one holds or held.
CreateDb(d) ==
  /\ content[d] = Absent
  /\ \/ content' = [content EXCEPT ![d] = 0]
     \/ \E s \in Db : \E n \in 0..content[s] : content' = [content EXCEPT ![d] = n]

WriteDb(d) ==
  /\ content[d] # Absent
  /\ content' = [content EXCEPT ![d] = @ + 1]

RemoveDb(d) ==
  /\ content[d] # Absent
  /\ content' = [content EXCEPT ![d] = Absent]

StoreNext == \E d \in Db : CreateDb(d) \/ WriteDb(d) \/ RemoveDb(d)

StoreSpec == StoreInit /\ [][StoreNext]_content
=============================================================================
