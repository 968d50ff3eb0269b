-------------------------------- MODULE Keys --------------------------------
(***************************************************************************)
(* The signing keys of one registry: the three files of its home           *)
(* directory, the commands that change them, one file operation at a time, *)
(* and the served process, which reads them once when it starts.  Every    *)
(* file write is atomic and durable (_atomic_write), but a command may die *)
(* or fail between two of them.  The operator runs one command at a time   *)
(* (nothing in the code enforces it).                                      *)
(***************************************************************************)
EXTENDS Naturals

CONSTANTS MaxKeys,        \* bound on generated keys
          MaxCrashes      \* bound on commands that die half-way

NoKey == 0
Key == 1..MaxKeys
Idle == [op |-> "idle"]

VARIABLES active,      \* signing-key.pem
          staged,      \* next-signing-key.pem
          ring,        \* signing-keyring.json
          fresh,       \* number of keys generated so far
          cmd,         \* the command being run: its next step and locals
          server,      \* the served process: phase, its key, accepted keys
          signers,     \* history: keys that signed a record or a cursor
          rotated,     \* history: keys that prepare-key-rotation staged
          retired,     \* history: keys retire-key reported
          cancelled,   \* history: keys cancel-key-rotation reported
          dropped,     \* history: published keys that genkey --force overwrote
          told,        \* history: keys printed for the operator
          pins,        \* keys the clients pinned, deployed out of band
          crashes      \* number of commands that died so far

files == <<active, staged, ring>>
reports == <<rotated, retired, cancelled, dropped, told>>
vars == <<files, fresh, cmd, server, signers, reports, pins, crashes>>

Down == [phase |-> "down", key |-> NoKey, accepted |-> {}]

ASSUME KeysAssumption == MaxKeys \in Nat /\ MaxCrashes \in Nat

Init ==
  /\ active = NoKey /\ staged = NoKey /\ ring = {} /\ fresh = 0
  /\ cmd = Idle /\ server = Down
  /\ signers = {} /\ rotated = {} /\ retired = {} /\ cancelled = {}
  /\ dropped = {} /\ told = {} /\ pins = {}
  /\ crashes = 0

(* Slip: only the keyring is believed.                                     *)
PublicKeysOfRing(key, s) == ring \cup ({s} \ {NoKey})

(* public_keys: the active key, the keyring, the staged key.               *)
PublicKeys(key, s) == {key} \cup ring \cup ({s} \ {NoKey})
Published == PublicKeys(active, staged) \ {NoKey}

(* genkey, alone of the commands, writes both files without a look at what *)
(* they hold: what was published and is no more.                           *)
Overwritten == dropped \cup (Published \ Published')
----------------------------------------------------------------------------
(***************************************************************************)
(* Commands.                                                               *)
(***************************************************************************)

(* genkey, up to the first file it writes.  With --force and a key in      *)
(* place it first opens the registry, looks whether the log is empty and   *)
(* closes it: a service may be up, or start, and log before the write.     *)
GenkeyCheck ==
  /\ cmd = Idle /\ active # NoKey
  /\ signers = {} /\ fresh < MaxKeys
  /\ cmd' = [op |-> "force"]
  /\ UNCHANGED <<files, fresh, server, signers, reports, pins, crashes>>

GenkeyStore ==
  /\ \/ cmd = Idle /\ active = NoKey
     \/ cmd.op = "force"
  /\ staged = NoKey
  /\ fresh < MaxKeys
  /\ fresh' = fresh + 1 /\ active' = fresh + 1
  /\ cmd' = [op |-> "genkey"]
  /\ UNCHANGED <<staged, ring, server, signers, rotated, retired, cancelled, told, pins, crashes>>
  /\ dropped' = Overwritten

(* initialize_key refuses while a rotation is staged.                      *)
GenkeyRefused ==
  /\ cmd.op = "force" /\ staged # NoKey
  /\ cmd' = Idle
  /\ UNCHANGED <<files, fresh, server, signers, reports, pins, crashes>>

GenkeyRing ==
  /\ cmd.op = "genkey"
  /\ ring' = {active}
  /\ told' = told \cup {active}
  /\ cmd' = Idle
  /\ UNCHANGED <<active, staged, fresh, server, signers, rotated, retired, cancelled, pins, crashes>>
  /\ dropped' = Overwritten

PrepareStore ==
  /\ cmd = Idle /\ active # NoKey
  /\ staged = NoKey
  /\ fresh < MaxKeys
  /\ fresh' = fresh + 1 /\ staged' = fresh + 1
  /\ rotated' = rotated \cup {staged'}
  /\ cmd' = [op |-> "prepare"]
  /\ UNCHANGED <<active, ring, server, signers, retired, cancelled, dropped, told, pins, crashes>>

PrepareRing ==
  /\ cmd.op = "prepare"
  /\ \/ /\ ring' = PublicKeys(active, staged)
        /\ told' = told \cup {active, staged}
        /\ UNCHANGED staged
     \/ /\ staged' = NoKey       \* the write failed, before or after its rename
        /\ ring' \in {ring, PublicKeys(active, staged)}
        /\ UNCHANGED told
  /\ cmd' = Idle
  /\ UNCHANGED <<active, fresh, server, signers, rotated, retired, cancelled, dropped, pins, crashes>>

(* Slip: --confirm-pins-deployed is not asked for.                         *)
PinsUnchecked == TRUE

(* --confirm-pins-deployed.  The command sees only the flag; the operator  *)
(* of the model gives it when the clients do pin the staged key.           *)
PinsConfirmed == staged \in pins

(* activate-key-rotation: the keyring, the active key, the staged key.     *)
ActivateRing ==
  /\ cmd = Idle /\ active # NoKey /\ staged # NoKey
  /\ PinsConfirmed
  /\ ring' = PublicKeys(active, staged)
  /\ cmd' = [op |-> "activate", key |-> staged]
  /\ UNCHANGED <<active, staged, fresh, server, signers, reports, pins, crashes>>

ActivateStore ==
  /\ cmd.op = "activate"
  /\ active' = cmd.key
  /\ cmd' = [op |-> "unlink", cancels |-> {}]
  /\ UNCHANGED <<staged, ring, fresh, server, signers, reports, pins, crashes>>

CancelRing ==
  /\ cmd = Idle /\ active # NoKey /\ staged # NoKey
  /\ ring' = PublicKeys(active, staged) \ {staged}
  /\ cmd' = [op |-> "unlink", cancels |-> {staged}]
  /\ UNCHANGED <<active, staged, fresh, server, signers, reports, pins, crashes>>

(* Slip: the staged file is left in place.                                 *)
UnlinkForgotten ==
  /\ cmd.op = "unlink"
  /\ cancelled' = cancelled \cup cmd.cancels
  /\ cmd' = Idle
  /\ UNCHANGED <<files, fresh, server, signers, rotated, retired, dropped, told, pins, crashes>>

(* The last step of an activation and of a cancellation.                   *)
Unlink ==
  /\ cmd.op = "unlink"
  /\ staged' = NoKey
  /\ cancelled' = cancelled \cup cmd.cancels
  /\ cmd' = Idle
  /\ UNCHANGED <<active, ring, fresh, server, signers, rotated, retired, dropped, told, pins, crashes>>

(* retire-key; the operator confirms that the overlap has elapsed.         *)
Retire(k) ==
  /\ cmd = Idle /\ active # NoKey
  /\ k \notin {active, staged} /\ k \in PublicKeys(active, staged)
  /\ ring' = PublicKeys(active, staged) \ {k}
  /\ retired' = retired \cup {k}
  /\ UNCHANGED <<active, staged, fresh, cmd, server, signers, rotated, cancelled, dropped, told, pins, crashes>>

(* The command dies, or a file operation fails.                            *)
CommandDies ==
  /\ cmd # Idle /\ crashes < MaxCrashes
  /\ crashes' = crashes + 1
  /\ cmd' = Idle
  /\ UNCHANGED <<files, fresh, server, signers, reports, pins>>
----------------------------------------------------------------------------
(***************************************************************************)
(* The served process, and the operator.                                   *)
(***************************************************************************)

(* app_from_env: the active key, then (public_keys) keyring and staged key. *)
StartActive ==
  /\ server = Down /\ active # NoKey
  /\ server' = [phase |-> "ring", key |-> active, accepted |-> {active}]
  /\ UNCHANGED <<files, fresh, cmd, signers, reports, pins, crashes>>

(* Slip: the keyring is not read.                                          *)
StartRingless ==
  /\ server.phase = "ring"
  /\ server' = [server EXCEPT !.phase = "staged"]
  /\ UNCHANGED <<files, fresh, cmd, signers, reports, pins, crashes>>

StartRing ==
  /\ server.phase = "ring"
  /\ server' = [server EXCEPT !.phase = "staged", !.accepted = @ \cup ring]
  /\ UNCHANGED <<files, fresh, cmd, signers, reports, pins, crashes>>

StartStaged ==
  /\ server.phase = "staged"
  /\ server' = [server EXCEPT !.phase = "up", !.accepted = @ \cup ({staged} \ {NoKey})]
  /\ UNCHANGED <<files, fresh, cmd, signers, reports, pins, crashes>>

Stop ==
  /\ server # Down
  /\ server' = Down
  /\ UNCHANGED <<files, fresh, cmd, signers, reports, pins, crashes>>

(* A record is countersigned and logged, or the cursor of a page signed:   *)
(* the log is empty exactly while signers is.                              *)
Sign ==
  /\ server.phase = "up"
  /\ signers' = signers \cup {server.key}
  /\ UNCHANGED <<files, fresh, cmd, server, reports, pins, crashes>>

(* The operator deploys the pins the commands printed and /v1/meta lists.  *)
DeployPins ==
  /\ pins' = pins \cup told \cup IF server.phase = "up" THEN server.accepted ELSE {}
  /\ UNCHANGED <<files, fresh, cmd, server, signers, reports, crashes>>
----------------------------------------------------------------------------
Next ==
  \/ GenkeyCheck \/ GenkeyStore \/ GenkeyRing \/ GenkeyRefused
  \/ PrepareStore \/ PrepareRing
  \/ ActivateRing \/ ActivateStore \/ CancelRing \/ Unlink
  \/ \E k \in Key : Retire(k)
  \/ CommandDies
  \/ StartActive \/ StartRing \/ StartStaged \/ Stop \/ Sign \/ DeployPins

Spec == Init /\ [][Next]_vars

(* A command that runs goes on, and an operator who finds a rotation       *)
(* staged sooner or later activates or cancels it.                         *)
Fairness ==
  /\ WF_vars(GenkeyStore \/ GenkeyRing \/ GenkeyRefused)
  /\ WF_vars(PrepareRing) /\ WF_vars(ActivateStore) /\ WF_vars(Unlink)
  /\ SF_vars(ActivateRing \/ CancelRing)

FairSpec == Spec /\ Fairness
----------------------------------------------------------------------------
(* Files, commands and the process keep their types.                       *)
TypeOK ==
  /\ active \in Key \cup {NoKey} /\ staged \in Key \cup {NoKey}
  /\ ring \subseteq Key /\ fresh \in 0..MaxKeys
  /\ cmd \in      [op : {"idle", "force", "genkey", "prepare"}]
             \cup [op : {"activate"}, key : Key]
             \cup [op : {"unlink"}, cancels : SUBSET Key]
  /\ server \in [phase : {"down", "ring", "staged", "up"},
                 key : Key \cup {NoKey}, accepted : SUBSET Key]
  /\ crashes \in 0..MaxCrashes
  /\ signers \cup rotated \cup retired \cup cancelled \cup dropped
       \cup told \cup pins \subseteq Key

(* Wherever commands die and services start and stop, a key that signed a  *)
(* record or a cursor is published by the files, so that the next start    *)
(* verifies it, until the operator retires it or genkey --force overwrites *)
(* it; no step of a rotation ever takes it out (keys.py, public_keys).     *)
SignersVerifiable == signers \ (retired \cup dropped) \subseteq Published

(* A running service accepts every cursor signed before it started, with   *)
(* the same two exceptions, though it read the files one by one while      *)
(* commands changed them (app_from_env, public_keys).                      *)
CursorsSurvive ==
  server.phase = "up" => signers \ (retired \cup dropped) \subseteq server.accepted

(* Clients never see an unannounced signer: a key that came by a rotation  *)
(* serves only once the clients pin it, wherever activate-key-rotation or  *)
(* the command before it died.                                             *)
NoUnannouncedSigner ==
  server.phase = "up" /\ server.key \in rotated => server.key \in pins

(* No interrupted command leaves a staged key that cannot be got rid of.   *)
RotationEnds == staged # NoKey ~> staged = NoKey

(* README: cancel-key-rotation discards a staged key before activation.    *)
CancelledIsDiscarded == cmd = Idle => active \notin cancelled
=============================================================================
