----------------------------- MODULE MotorPlayback -----------------------------
(***************************************************************************)
(* What the service promises of its motors: a motor plays nothing but the  *)
(* request admitted to it last, a request is admitted to a quiet motor     *)
(* only, and a motor that plays is never without the record of who plays   *)
(* what.  Who asks, who decides and which thread acts is left out.         *)
(*                                                                         *)
(* Module MCMiscdeviceService shows that the service on a device without   *)
(* HD haptics implements this, with the device's state for `playing' and   *)
(* the VibratorThread's record for `admitted'.                             *)
(***************************************************************************)
CONSTANTS Motors, Infos, None

VARIABLES playing, admitted

playbackVars == <<playing, admitted>>

PlaybackInit ==
  /\ playing = [m \in Motors |-> None]
  /\ admitted = [m \in Motors |-> None]

\* A request is admitted to a quiet motor, in place of what was there.
AdmitTo(m) ==
  /\ playing[m] = None
  /\ admitted'[m] \in Infos
  /\ admitted' = [admitted EXCEPT ![m] = admitted'[m]]
  /\ UNCHANGED playing

\* The motor plays the admitted request, or the next part of it.
PlayAdmitted(m) ==
  /\ admitted[m] # None
  /\ playing' = [playing EXCEPT ![m] = admitted[m]]
  /\ UNCHANGED admitted

\* Motors fall silent: one at its end, or all those of a device unplugged.
FallSilent(M) ==
  /\ playing' = [m \in Motors |-> IF m \in M THEN None ELSE playing[m]]
  /\ UNCHANGED admitted

\* Quiet motors forget their requests.
Forget(M) ==
  /\ \A m \in M : playing[m] = None
  /\ admitted' = [m \in Motors |-> IF m \in M THEN None ELSE admitted[m]]
  /\ UNCHANGED playing

PlaybackNext ==
  \/ \E m \in Motors : AdmitTo(m) \/ PlayAdmitted(m)
  \/ \E M \in SUBSET Motors : FallSilent(M) \/ Forget(M)

PlaybackSpec == PlaybackInit /\ [][PlaybackNext]_playbackVars
================================================================================
