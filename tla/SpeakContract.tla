---------------------------- MODULE SpeakContract ----------------------------
(***************************************************************************)
(* What one call of LucentEngine::speakOnce promises the code that calls   *)
(* it (speak, and through it the SAPI engine and the configuration         *)
(* utility), whatever the child process and the other threads do:          *)
(*   - the sink hears audio and bookmarks in order, and a bookmark lies in *)
(*     the audio it is handed out with;                                    *)
(*   - once the sink has refused audio it is not called again;             *)
(*   - the call ends "done", "aborted" or "failed", and "done" only when   *)
(*     the sink refused nothing.                                           *)
(***************************************************************************)
EXTENDS Naturals

VARIABLES
  speaking,  \* a call is under way
  heard,     \* audio handed to the sink by it
  mark,      \* position of its last bookmark
  refused,   \* the sink has refused audio
  how        \* how the last call ended

contractVars == <<speaking, heard, mark, refused, how>>

ContractInit ==
  /\ speaking = FALSE /\ heard = 0 /\ mark = 0 /\ refused = FALSE /\ how = "none"

Begin ==
  /\ ~speaking /\ speaking'
  /\ heard' = 0 /\ mark' = 0 /\ ~refused'
  /\ how' = how

\* Bookmarks, then audio, in one call-back round.
Fed ==
  /\ heard' >= heard
  /\ mark' = mark \/ (heard <= mark' /\ mark' <= heard')
  /\ refused => heard' = heard /\ mark' = mark

Feed ==
  /\ speaking /\ speaking'
  /\ Fed
  /\ refused => refused'
  /\ refused' => refused \/ heard' > heard
  /\ how' = how

End ==
  /\ speaking /\ ~speaking'
  /\ Fed
  /\ refused' = refused
  /\ how' \in {"done", "aborted", "failed"}
  /\ how' = "done" => ~refused

ContractNext == Begin \/ Feed \/ End

ContractSpec == ContractInit /\ [][ContractNext]_contractVars
=============================================================================
