----------------------------- MODULE KeysProofs -----------------------------
(***************************************************************************)
(* Theorems about module Keys: for any number of keys, wherever any number *)
(* of commands die, and whenever genkey --force is run.                    *)
(***************************************************************************)
EXTENDS Keys, TLAPS

(* How far a command has got, and what that says of the files: an          *)
(* activation that has come to its second write finds both keys in the     *)
(* keyring.                                                                *)
CommandInv ==
  /\ cmd.op \in {"genkey", "prepare", "activate", "unlink"} => active # NoKey
  /\ cmd.op = "prepare" => staged # NoKey
  /\ cmd.op = "activate" => cmd.key = staged /\ {active, staged} \subseteq ring
  /\ server.phase # "down" => server.key # NoKey

(* Keys come from the generator.                                           *)
FreshInv == {active, staged, server.key} \cup signers \cup rotated \subseteq 0..fresh

(* A rotated key is pinned before it becomes the active one.               *)
PinInv ==
  /\ {active, server.key} \cap rotated \subseteq pins
  /\ cmd.op = "activate" => cmd.key \in pins

FilesInv == TypeOK /\ CommandInv /\ FreshInv /\ PinInv

(* A staged key signs nothing before it is the active one.                 *)
StagedInv == staged \notin {NoKey, active} => staged \notin signers \cup {server.key}

(* Keys that no longer have to be published.                               *)
Excused == retired \cup dropped

(* What signed, or may at any moment, is published unless it was retired   *)
(* or overwritten.                                                         *)
PublishedInv == (signers \cup {server.key}) \ (Excused \cup {NoKey}) \subseteq Published

(* What a starting process has read so far, and has still to read.         *)
AcceptInv ==
  /\ server.phase # "down" => server.key \in server.accepted
  /\ server.phase = "down" => server = Down
  /\ server.phase = "ring" =>
        /\ signers \ Excused \subseteq server.accepted \cup ring
        /\ active \in signers => active \in server.accepted
  /\ server.phase \in {"staged", "up"} => signers \ Excused \subseteq server.accepted

SignInv == StagedInv /\ PublishedInv /\ AcceptInv

(* The types the invariant needs, field by field.                          *)
LEMMA KeysTypes ==
  ASSUME TypeOK
  PROVE  /\ cmd.op \in {"idle", "force", "genkey", "prepare", "activate", "unlink"}
         /\ cmd = Idle => cmd.op = "idle"
         /\ cmd.op = "activate" => cmd.key \in Key
         /\ cmd.op = "unlink" => cmd.cancels \subseteq Key
         /\ server.phase \in {"down", "ring", "staged", "up"}
         /\ server.key \in Key \cup {NoKey} /\ server.accepted \subseteq Key
         /\ server = Down => /\ server.phase = "down" /\ server.key = NoKey
                             /\ server.accepted = {}
         /\ NoKey \notin Key /\ MaxKeys \in Nat /\ MaxCrashes \in Nat
         /\ \A k \in Key : k \in Nat /\ k >= 1 /\ k <= MaxKeys
  BY KeysAssumption DEF TypeOK, Idle, Down, NoKey, Key

(* Every step keeps the files and the pins in order.                       *)
LEMMA FilesStep ==
  ASSUME FilesInv, [Next]_vars
  PROVE  FilesInv'
  <1> USE DEF NoKey
  <1>1. ASSUME GenkeyCheck PROVE FilesInv'
    <2>1. TypeOK'
      BY <1>1, KeysTypes DEF FilesInv, TypeOK, GenkeyCheck, Idle, Down, files, reports,
         Key
    <2>2. CommandInv'
      BY <1>1, KeysTypes DEF FilesInv, CommandInv, GenkeyCheck, Idle, files, reports
    <2>3. FreshInv'
      BY <1>1, KeysTypes DEF FilesInv, FreshInv, GenkeyCheck, Idle, Down, files, reports
    <2>4. PinInv'
      BY <1>1, KeysTypes DEF FilesInv, PinInv, GenkeyCheck, Idle, Down, files, reports
    <2> QED BY <2>1, <2>2, <2>3, <2>4 DEF FilesInv
  <1>2. ASSUME GenkeyStore PROVE FilesInv'
    <2>1. TypeOK'
      BY <1>2, KeysTypes DEF FilesInv, TypeOK, GenkeyStore, Idle, reports, Key,
         Overwritten, Published, PublicKeys
    <2>2. CommandInv'
      BY <1>2, KeysTypes DEF FilesInv, CommandInv, GenkeyStore, Idle, reports, TypeOK
    <2>3. FreshInv'
      BY <1>2, KeysTypes DEF FilesInv, FreshInv, GenkeyStore, Idle, reports, TypeOK, Key
    <2>4. PinInv'
      BY <1>2, KeysTypes DEF FilesInv, PinInv, GenkeyStore, Idle, reports, FreshInv,
         TypeOK, CommandInv
    <2> QED BY <2>1, <2>2, <2>3, <2>4 DEF FilesInv
  <1>3. ASSUME GenkeyRing PROVE FilesInv'
    <2>1. TypeOK'
      BY <1>3, KeysTypes DEF FilesInv, TypeOK, GenkeyRing, Idle, Key, CommandInv,
         Overwritten, Published, PublicKeys
    <2>2. CommandInv'
      BY <1>3, KeysTypes DEF FilesInv, CommandInv, GenkeyRing, Idle
    <2>3. FreshInv'
      BY <1>3, KeysTypes DEF FilesInv, FreshInv, GenkeyRing, Idle
    <2>4. PinInv'
      BY <1>3, KeysTypes DEF FilesInv, PinInv, GenkeyRing, Idle
    <2> QED BY <2>1, <2>2, <2>3, <2>4 DEF FilesInv
  <1>4. ASSUME GenkeyRefused PROVE FilesInv'
    <2>1. TypeOK'
      BY <1>4, KeysTypes DEF FilesInv, TypeOK, GenkeyRefused, Idle, files, reports, Key
    <2>2. CommandInv'
      BY <1>4, KeysTypes DEF FilesInv, CommandInv, GenkeyRefused, Idle, files, reports
    <2>3. FreshInv'
      BY <1>4, KeysTypes DEF FilesInv, FreshInv, GenkeyRefused, Idle, files, reports
    <2>4. PinInv'
      BY <1>4, KeysTypes DEF FilesInv, PinInv, GenkeyRefused, Idle, files, reports
    <2> QED BY <2>1, <2>2, <2>3, <2>4 DEF FilesInv
  <1>5. ASSUME PrepareStore PROVE FilesInv'
    <2>1. TypeOK'
      BY <1>5, KeysTypes DEF FilesInv, TypeOK, PrepareStore, Idle, Key
    <2>2. CommandInv'
      BY <1>5, KeysTypes DEF FilesInv, CommandInv, PrepareStore, Idle, TypeOK
    <2>3. FreshInv'
      BY <1>5, KeysTypes DEF FilesInv, FreshInv, PrepareStore, Idle, TypeOK, Key
    <2>4. PinInv'
      BY <1>5, KeysTypes DEF FilesInv, PinInv, PrepareStore, Idle, FreshInv, TypeOK
    <2> QED BY <2>1, <2>2, <2>3, <2>4 DEF FilesInv
  <1>6. ASSUME PrepareRing PROVE FilesInv'
    <2>1. TypeOK'
      BY <1>6, KeysTypes DEF FilesInv, TypeOK, PrepareRing, Idle, Key, PublicKeys,
         CommandInv
    <2>2. CommandInv'
      BY <1>6, KeysTypes DEF FilesInv, CommandInv, PrepareRing, Idle, PublicKeys
    <2>3. FreshInv'
      BY <1>6, KeysTypes DEF FilesInv, FreshInv, PrepareRing, Idle, TypeOK, Key
    <2>4. PinInv'
      BY <1>6, KeysTypes DEF FilesInv, PinInv, PrepareRing, Idle
    <2> QED BY <2>1, <2>2, <2>3, <2>4 DEF FilesInv
  <1>7. ASSUME ActivateRing PROVE FilesInv'
    <2>1. TypeOK'
      BY <1>7, KeysTypes DEF FilesInv, TypeOK, ActivateRing, Idle, reports, Key,
         PublicKeys
    <2>2. CommandInv'
      BY <1>7, KeysTypes DEF FilesInv, CommandInv, ActivateRing, Idle, reports,
         PublicKeys
    <2>3. FreshInv'
      BY <1>7, KeysTypes DEF FilesInv, FreshInv, ActivateRing, Idle, reports
    <2>4. PinInv'
      BY <1>7, KeysTypes DEF FilesInv, PinInv, ActivateRing, Idle, reports,
         PinsConfirmed
    <2> QED BY <2>1, <2>2, <2>3, <2>4 DEF FilesInv
  <1>8. ASSUME ActivateStore PROVE FilesInv'
    <2>1. TypeOK'
      BY <1>8, KeysTypes DEF FilesInv, TypeOK, ActivateStore, reports, Key
    <2>2. CommandInv'
      BY <1>8, KeysTypes DEF FilesInv, CommandInv, ActivateStore, reports
    <2>3. FreshInv'
      BY <1>8, KeysTypes DEF FilesInv, FreshInv, ActivateStore, reports, CommandInv
    <2>4. PinInv'
      BY <1>8, KeysTypes DEF FilesInv, PinInv, ActivateStore, reports, CommandInv
    <2> QED BY <2>1, <2>2, <2>3, <2>4 DEF FilesInv
  <1>9. ASSUME CancelRing PROVE FilesInv'
    <2>1. TypeOK'
      BY <1>9, KeysTypes DEF FilesInv, TypeOK, CancelRing, Idle, reports, Key,
         PublicKeys
    <2>2. CommandInv'
      BY <1>9, KeysTypes DEF FilesInv, CommandInv, CancelRing, Idle, reports, PublicKeys
    <2>3. FreshInv'
      BY <1>9, KeysTypes DEF FilesInv, FreshInv, CancelRing, Idle, reports
    <2>4. PinInv'
      BY <1>9, KeysTypes DEF FilesInv, PinInv, CancelRing, Idle, reports
    <2> QED BY <2>1, <2>2, <2>3, <2>4 DEF FilesInv
  <1>10. ASSUME Unlink PROVE FilesInv'
    <2>1. TypeOK'
      BY <1>10, KeysTypes DEF FilesInv, TypeOK, Unlink, Idle, Key
    <2>2. CommandInv'
      BY <1>10, KeysTypes DEF FilesInv, CommandInv, Unlink, Idle
    <2>3. FreshInv'
      BY <1>10, KeysTypes DEF FilesInv, FreshInv, Unlink, Idle, TypeOK, Key
    <2>4. PinInv'
      BY <1>10, KeysTypes DEF FilesInv, PinInv, Unlink, Idle
    <2> QED BY <2>1, <2>2, <2>3, <2>4 DEF FilesInv
  <1>11. ASSUME NEW k \in Key, Retire(k) PROVE FilesInv'
    <2>1. TypeOK'
      BY <1>11, KeysTypes DEF FilesInv, TypeOK, Retire, Idle, Key, PublicKeys
    <2>2. CommandInv'
      BY <1>11, KeysTypes DEF FilesInv, CommandInv, Retire, Idle, PublicKeys
    <2>3. FreshInv'
      BY <1>11, KeysTypes DEF FilesInv, FreshInv, Retire, Idle
    <2>4. PinInv'
      BY <1>11, KeysTypes DEF FilesInv, PinInv, Retire, Idle
    <2> QED BY <2>1, <2>2, <2>3, <2>4 DEF FilesInv
  <1>12. ASSUME CommandDies PROVE FilesInv'
    <2>1. TypeOK'
      BY <1>12, KeysTypes DEF FilesInv, TypeOK, CommandDies, Idle, files, reports, Key
    <2>2. CommandInv'
      BY <1>12, KeysTypes DEF FilesInv, CommandInv, CommandDies, Idle, files, reports
    <2>3. FreshInv'
      BY <1>12, KeysTypes DEF FilesInv, FreshInv, CommandDies, Idle, files, reports
    <2>4. PinInv'
      BY <1>12, KeysTypes DEF FilesInv, PinInv, CommandDies, Idle, files, reports
    <2> QED BY <2>1, <2>2, <2>3, <2>4 DEF FilesInv
  <1>13. ASSUME StartActive PROVE FilesInv'
    <2>1. TypeOK'
      BY <1>13, KeysTypes DEF FilesInv, TypeOK, StartActive, Down, files, reports, Key
    <2>2. CommandInv'
      BY <1>13, KeysTypes DEF FilesInv, CommandInv, StartActive, Down, files, reports
    <2>3. FreshInv'
      BY <1>13, KeysTypes DEF FilesInv, FreshInv, StartActive, Down, files, reports
    <2>4. PinInv'
      BY <1>13, KeysTypes DEF FilesInv, PinInv, StartActive, Down, files, reports
    <2> QED BY <2>1, <2>2, <2>3, <2>4 DEF FilesInv
  <1>14. ASSUME StartRing PROVE FilesInv'
    <2>1. TypeOK'
      BY <1>14, KeysTypes DEF FilesInv, TypeOK, StartRing, files, reports, Key
    <2>2. CommandInv'
      BY <1>14, KeysTypes DEF FilesInv, CommandInv, StartRing, files, reports, TypeOK
    <2>3. FreshInv'
      BY <1>14, KeysTypes DEF FilesInv, FreshInv, StartRing, files, reports, TypeOK
    <2>4. PinInv'
      BY <1>14, KeysTypes DEF FilesInv, PinInv, StartRing, files, reports, TypeOK
    <2> QED BY <2>1, <2>2, <2>3, <2>4 DEF FilesInv
  <1>15. ASSUME StartStaged PROVE FilesInv'
    <2>1. TypeOK'
      BY <1>15, KeysTypes DEF FilesInv, TypeOK, StartStaged, files, reports, Key
    <2>2. CommandInv'
      BY <1>15, KeysTypes DEF FilesInv, CommandInv, StartStaged, files, reports, TypeOK
    <2>3. FreshInv'
      BY <1>15, KeysTypes DEF FilesInv, FreshInv, StartStaged, files, reports, TypeOK
    <2>4. PinInv'
      BY <1>15, KeysTypes DEF FilesInv, PinInv, StartStaged, files, reports, TypeOK
    <2> QED BY <2>1, <2>2, <2>3, <2>4 DEF FilesInv
  <1>16. ASSUME Stop PROVE FilesInv'
    <2>1. TypeOK'
      BY <1>16, KeysTypes DEF FilesInv, TypeOK, Stop, Down, files, reports, Key
    <2>2. CommandInv'
      BY <1>16, KeysTypes DEF FilesInv, CommandInv, Stop, Down, files, reports
    <2>3. FreshInv'
      BY <1>16, KeysTypes DEF FilesInv, FreshInv, Stop, Down, files, reports, TypeOK
    <2>4. PinInv'
      BY <1>16, KeysTypes DEF FilesInv, PinInv, Stop, Down, files, reports, TypeOK
    <2> QED BY <2>1, <2>2, <2>3, <2>4 DEF FilesInv
  <1>17. ASSUME Sign PROVE FilesInv'
    <2>1. TypeOK'
      BY <1>17, KeysTypes DEF FilesInv, TypeOK, Sign, files, reports, Key, CommandInv
    <2>2. CommandInv'
      BY <1>17, KeysTypes DEF FilesInv, CommandInv, Sign, files, reports, Down
    <2>3. FreshInv'
      BY <1>17, KeysTypes DEF FilesInv, FreshInv, Sign, files, reports
    <2>4. PinInv'
      BY <1>17, KeysTypes DEF FilesInv, PinInv, Sign, files, reports
    <2> QED BY <2>1, <2>2, <2>3, <2>4 DEF FilesInv
  <1>18. ASSUME DeployPins PROVE FilesInv'
    <2>1. TypeOK'
      BY <1>18, KeysTypes DEF FilesInv, TypeOK, DeployPins, files, reports, Key
    <2>2. CommandInv'
      BY <1>18, KeysTypes DEF FilesInv, CommandInv, DeployPins, files, reports
    <2>3. FreshInv'
      BY <1>18, KeysTypes DEF FilesInv, FreshInv, DeployPins, files, reports
    <2>4. PinInv'
      BY <1>18, KeysTypes DEF FilesInv, PinInv, DeployPins, files, reports
    <2> QED BY <2>1, <2>2, <2>3, <2>4 DEF FilesInv
  <1>19. CASE UNCHANGED vars
    BY <1>19 DEF vars, files, reports, FilesInv, TypeOK, CommandInv, FreshInv, PinInv
  <1> QED BY <1>1, <1>2, <1>3, <1>4, <1>5, <1>6, <1>7, <1>8, <1>9, <1>10, <1>11, <1>12,
          <1>13, <1>14, <1>15, <1>16, <1>17, <1>18, <1>19
          DEF Next

(* Every step keeps what signs published and accepted.                     *)
LEMMA SignStep ==
  ASSUME FilesInv, SignInv, [Next]_vars
  PROVE  SignInv'
  <1> USE DEF NoKey
  <1>1. ASSUME GenkeyCheck PROVE SignInv'
    <2>1. StagedInv'
      BY <1>1 DEF SignInv, StagedInv, GenkeyCheck, Idle, Down, files, reports
    <2>2. PublishedInv'
      BY <1>1 DEF SignInv, PublishedInv, Excused, Published, PublicKeys, GenkeyCheck,
         Idle, Down, files, reports
    <2>3. AcceptInv'
      BY <1>1 DEF SignInv, AcceptInv, Excused, GenkeyCheck, Idle, Down, files, reports
    <2> QED BY <2>1, <2>2, <2>3 DEF SignInv
  <1>2. ASSUME GenkeyStore PROVE SignInv'
    <2>1. StagedInv'
      BY <1>2 DEF GenkeyStore, StagedInv
    <2>2. PublishedInv'
      BY <1>2 DEF SignInv, PublishedInv, Excused, Overwritten, GenkeyStore
    <2>3. AcceptInv'
      <3>1. active' = fresh + 1 /\ UNCHANGED <<ring, server, signers, retired>>
        BY <1>2 DEF GenkeyStore
      <3>2. active' \notin signers
        BY <3>1, KeysTypes DEF FilesInv, FreshInv, TypeOK
      <3>3. Excused \subseteq Excused'
        BY <1>2 DEF GenkeyStore, Excused, Overwritten
      <3> QED BY <3>1, <3>2, <3>3 DEF SignInv, AcceptInv, Down
    <2> QED BY <2>1, <2>2, <2>3 DEF SignInv
  <1>3. ASSUME GenkeyRing PROVE SignInv'
    <2>1. StagedInv'
      BY <1>3 DEF SignInv, StagedInv, GenkeyRing, Idle
    <2>2. PublishedInv'
      BY <1>3 DEF SignInv, PublishedInv, Excused, Overwritten, GenkeyRing
    <2>3. AcceptInv'
      <3>1. ring' = {active} /\ UNCHANGED <<active, staged, server, signers, retired>>
        BY <1>3 DEF GenkeyRing
      <3>2. Excused \subseteq Excused'
        BY <1>3 DEF GenkeyRing, Excused, Overwritten
      <3>3. NoKey \notin signers
        BY KeysTypes DEF FilesInv, TypeOK
      <3>4. signers \ Excused' \subseteq ring'
        BY <2>1, <2>2, <3>1, <3>3 DEF StagedInv, PublishedInv, Published, PublicKeys
      <3> QED BY <3>1, <3>2, <3>4 DEF SignInv, AcceptInv, Down
    <2> QED BY <2>1, <2>2, <2>3 DEF SignInv
  <1>4. ASSUME GenkeyRefused PROVE SignInv'
    <2>1. StagedInv'
      BY <1>4 DEF SignInv, StagedInv, GenkeyRefused, Idle, files, reports
    <2>2. PublishedInv'
      BY <1>4 DEF SignInv, PublishedInv, Excused, Published, PublicKeys,
         GenkeyRefused, Idle, files, reports
    <2>3. AcceptInv'
      BY <1>4 DEF SignInv, AcceptInv, Excused, GenkeyRefused, Idle, files, reports
    <2> QED BY <2>1, <2>2, <2>3 DEF SignInv
  <1>5. ASSUME PrepareStore PROVE SignInv'
    <2>1. StagedInv'
      BY <1>5, KeysTypes DEF SignInv, StagedInv, PrepareStore, Idle, FilesInv, FreshInv,
         TypeOK
    <2>2. PublishedInv'
      BY <1>5 DEF SignInv, PublishedInv, Excused, Published, PublicKeys, PrepareStore,
         Idle
    <2>3. AcceptInv'
      BY <1>5 DEF SignInv, AcceptInv, Excused, PrepareStore, Idle
    <2> QED BY <2>1, <2>2, <2>3 DEF SignInv
  <1>6. ASSUME PrepareRing PROVE SignInv'
    <2>1. StagedInv'
      BY <1>6 DEF SignInv, StagedInv, PrepareRing, Idle
    <2>2. PublishedInv'
      BY <1>6, KeysTypes DEF SignInv, PublishedInv, Excused, Published, PublicKeys, PrepareRing,
         Idle, StagedInv, FilesInv, CommandInv
    <2>3. AcceptInv'
      BY <1>6 DEF SignInv, AcceptInv, Excused, PrepareRing, Idle, PublicKeys
    <2> QED BY <2>1, <2>2, <2>3 DEF SignInv
  <1>7. ASSUME ActivateRing PROVE SignInv'
    <2>1. StagedInv'
      BY <1>7 DEF SignInv, StagedInv, ActivateRing, Idle, reports
    <2>2. PublishedInv'
      BY <1>7 DEF SignInv, PublishedInv, Excused, Published, PublicKeys, ActivateRing,
         Idle, reports
    <2>3. AcceptInv'
      BY <1>7 DEF SignInv, AcceptInv, Excused, ActivateRing, Idle, reports, PublicKeys
    <2> QED BY <2>1, <2>2, <2>3 DEF SignInv
  <1>8. ASSUME ActivateStore PROVE SignInv'
    <2>1. StagedInv'
      BY <1>8, KeysTypes DEF SignInv, StagedInv, ActivateStore, reports, FilesInv, CommandInv
    <2>2. PublishedInv'
      BY <1>8, KeysTypes DEF SignInv, PublishedInv, Excused, Published, PublicKeys,
         ActivateStore, reports, FilesInv, CommandInv
    <2>3. AcceptInv'
      BY <1>8, KeysTypes DEF SignInv, AcceptInv, Excused, ActivateStore, reports, FilesInv, CommandInv, StagedInv
    <2> QED BY <2>1, <2>2, <2>3 DEF SignInv
  <1>9. ASSUME CancelRing PROVE SignInv'
    <2>1. StagedInv'
      BY <1>9 DEF SignInv, StagedInv, CancelRing, Idle, reports
    <2>2. PublishedInv'
      BY <1>9 DEF SignInv, PublishedInv, Excused, Published, PublicKeys, CancelRing,
         Idle, reports
    <2>3. AcceptInv'
      BY <1>9 DEF SignInv, AcceptInv, Excused, CancelRing, Idle, reports, PublicKeys,
         StagedInv
    <2> QED BY <2>1, <2>2, <2>3 DEF SignInv
  <1>10. ASSUME Unlink PROVE SignInv'
    <2>1. StagedInv'
      BY <1>10 DEF SignInv, StagedInv, Unlink, Idle
    <2>2. PublishedInv'
      BY <1>10 DEF SignInv, PublishedInv, Excused, Published, PublicKeys, Unlink,
         Idle, StagedInv
    <2>3. AcceptInv'
      BY <1>10 DEF SignInv, AcceptInv, Excused, Unlink, Idle
    <2> QED BY <2>1, <2>2, <2>3 DEF SignInv
  <1>11. ASSUME NEW k \in Key, Retire(k) PROVE SignInv'
    <2>1. StagedInv'
      BY <1>11 DEF SignInv, StagedInv, Retire, Idle
    <2>2. PublishedInv'
      BY <1>11 DEF SignInv, PublishedInv, Excused, Published, PublicKeys, Retire, Idle
    <2>3. AcceptInv'
      BY <1>11 DEF SignInv, AcceptInv, Excused, Retire, Idle, PublicKeys
    <2> QED BY <2>1, <2>2, <2>3 DEF SignInv
  <1>12. ASSUME CommandDies PROVE SignInv'
    <2>1. StagedInv'
      BY <1>12 DEF SignInv, StagedInv, CommandDies, Idle, files, reports
    <2>2. PublishedInv'
      BY <1>12 DEF SignInv, PublishedInv, Excused, Published, PublicKeys, CommandDies,
         Idle, files, reports
    <2>3. AcceptInv'
      BY <1>12 DEF SignInv, AcceptInv, Excused, CommandDies, Idle, files, reports
    <2> QED BY <2>1, <2>2, <2>3 DEF SignInv
  <1>13. ASSUME StartActive PROVE SignInv'
    <2>1. StagedInv'
      BY <1>13 DEF SignInv, StagedInv, StartActive, Down, files, reports
    <2>2. PublishedInv'
      BY <1>13, KeysTypes DEF SignInv, PublishedInv, Excused, Published, PublicKeys, StartActive,
         Down, files, reports, FilesInv, TypeOK
    <2>3. AcceptInv'
      BY <1>13, KeysTypes DEF SignInv, AcceptInv, Excused, StartActive, Down, files, reports,
         PublishedInv, Excused, Published, PublicKeys, StagedInv, FilesInv, TypeOK
    <2> QED BY <2>1, <2>2, <2>3 DEF SignInv
  <1>14. ASSUME StartRing PROVE SignInv'
    <2>1. StagedInv'
      BY <1>14, KeysTypes DEF SignInv, StagedInv, StartRing, files, reports, FilesInv,
         TypeOK
    <2>2. PublishedInv'
      BY <1>14, KeysTypes DEF SignInv, PublishedInv, Excused, Published, PublicKeys, StartRing,
         files, reports, FilesInv, TypeOK
    <2>3. AcceptInv'
      BY <1>14, KeysTypes DEF SignInv, AcceptInv, Excused, StartRing, files, reports, FilesInv,
         TypeOK
    <2> QED BY <2>1, <2>2, <2>3 DEF SignInv
  <1>15. ASSUME StartStaged PROVE SignInv'
    <2>1. StagedInv'
      BY <1>15, KeysTypes DEF SignInv, StagedInv, StartStaged, files, reports, FilesInv,
         TypeOK
    <2>2. PublishedInv'
      BY <1>15, KeysTypes DEF SignInv, PublishedInv, Excused, Published, PublicKeys, StartStaged,
         files, reports, FilesInv, TypeOK
    <2>3. AcceptInv'
      BY <1>15, KeysTypes DEF SignInv, AcceptInv, Excused, StartStaged, files, reports, FilesInv,
         TypeOK
    <2> QED BY <2>1, <2>2, <2>3 DEF SignInv
  <1>16. ASSUME Stop PROVE SignInv'
    <2>1. StagedInv'
      BY <1>16 DEF SignInv, StagedInv, Stop, Down, files, reports
    <2>2. PublishedInv'
      BY <1>16 DEF SignInv, PublishedInv, Excused, Published, PublicKeys, Stop, Down,
         files, reports
    <2>3. AcceptInv'
      BY <1>16, KeysTypes DEF SignInv, AcceptInv, Excused, Stop, Down, files, reports, FilesInv,
         TypeOK
    <2> QED BY <2>1, <2>2, <2>3 DEF SignInv
  <1>17. ASSUME Sign PROVE SignInv'
    <2>1. StagedInv'
      BY <1>17 DEF SignInv, StagedInv, Sign, files, reports
    <2>2. PublishedInv'
      BY <1>17 DEF SignInv, PublishedInv, Excused, Published, PublicKeys, Sign, files,
         reports
    <2>3. AcceptInv'
      BY <1>17 DEF SignInv, AcceptInv, Excused, Sign, files, reports
    <2> QED BY <2>1, <2>2, <2>3 DEF SignInv
  <1>18. ASSUME DeployPins PROVE SignInv'
    <2>1. StagedInv'
      BY <1>18 DEF SignInv, StagedInv, DeployPins, files, reports
    <2>2. PublishedInv'
      BY <1>18 DEF SignInv, PublishedInv, Excused, Published, PublicKeys, DeployPins,
         files, reports
    <2>3. AcceptInv'
      BY <1>18 DEF SignInv, AcceptInv, Excused, DeployPins, files, reports
    <2> QED BY <2>1, <2>2, <2>3 DEF SignInv
  <1>19. CASE UNCHANGED vars
    BY <1>19 DEF vars, files, reports, SignInv, StagedInv, PublishedInv,
       Excused, Published, PublicKeys, AcceptInv
  <1> QED BY <1>1, <1>2, <1>3, <1>4, <1>5, <1>6, <1>7, <1>8, <1>9, <1>10, <1>11, <1>12,
          <1>13, <1>14, <1>15, <1>16, <1>17, <1>18, <1>19
          DEF Next

(* Both invariants hold from the empty home directory on.                  *)
LEMMA FilesInvariant == Spec => []FilesInv
  <1>1. Init => FilesInv
    <2> SUFFICES ASSUME Init PROVE FilesInv
      OBVIOUS
    <2>1. TypeOK BY KeysAssumption DEF Init, TypeOK, Idle, Down
    <2>2. server.key = NoKey /\ server.phase = "down" /\ cmd.op = "idle" BY DEF Init, Down, Idle
    <2> QED BY <2>1, <2>2 DEF Init, FilesInv, CommandInv, FreshInv, PinInv, NoKey
  <1>2. FilesInv /\ [Next]_vars => FilesInv'
    BY FilesStep
  <1> QED BY <1>1, <1>2, PTL DEF Spec

LEMMA SignInvariant == Spec => [](FilesInv /\ SignInv)
  <1>1. Init => SignInv
    <2> SUFFICES ASSUME Init PROVE SignInv
      OBVIOUS
    <2>1. server.key = NoKey /\ server.phase = "down" BY DEF Init, Down
    <2> QED BY <2>1
            DEF Init, SignInv, StagedInv, PublishedInv, Excused, AcceptInv, NoKey
  <1>2. FilesInv /\ SignInv /\ [Next]_vars => SignInv'
    BY SignStep
  <1> QED BY <1>1, <1>2, FilesInvariant, PTL DEF Spec

(* Wherever commands die between two files and services start and stop,    *)
(* every key that has signed a record or a cursor stays published until    *)
(* the operator retires it or genkey --force, which rewrites both files,   *)
(* overwrites it.                                                          *)
THEOREM SignersStayVerifiable == Spec => []SignersVerifiable
  <1>1. FilesInv /\ SignInv => SignersVerifiable
    BY DEF FilesInv, TypeOK, Key, NoKey, SignInv, PublishedInv, Excused, SignersVerifiable
  <1> QED BY <1>1, SignInvariant, PTL

(* A service that read the three files one by one while a command changed  *)
(* them, genkey --force included, still accepts every cursor signed before *)
(* it started, or since, under a key neither retired nor overwritten.      *)
THEOREM CursorsAlwaysSurvive == Spec => []CursorsSurvive
  <1>1. SignInv => CursorsSurvive
    BY DEF SignInv, AcceptInv, Excused, CursorsSurvive
  <1> QED BY <1>1, SignInvariant, PTL

(* A key that came by a rotation never serves before the clients pin it,   *)
(* whatever died and was started again.  This is the operator's promise    *)
(* (PinsConfirmed) carried through every interrupted activation.           *)
THEOREM SignersAlwaysAnnounced == Spec => []NoUnannouncedSigner
  <1>1. FilesInv => NoUnannouncedSigner
    BY DEF FilesInv, PinInv, NoUnannouncedSigner
  <1> QED BY <1>1, FilesInvariant, PTL
=============================================================================
