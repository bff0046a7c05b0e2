-------------------------------- MODULE Pack --------------------------------
(***************************************************************************)
(* The parts of the worker that hold no state in common: the founding of   *)
(* accounts and dens, sign-in, a den's room, its knowledge base, the audio *)
(* of its fire, a page in voice and the agents that answer in the den.     *)
(*                                                                         *)
(* They meet in D1 by user and den ids only, which none of them changes    *)
(* for another.  A step of one part commutes with every step of the        *)
(* others, and every property is about one part, so a behaviour moves the  *)
(* part that was picked at its start and leaves the rest where it was.     *)
(* The seats of a Keeper's fire share no variable with its track: they are *)
(* a part of their own.  In a cast's fire both move.                       *)
(***************************************************************************)
EXTENDS Onboarding, NativeAuth, DenRoom, DenDocs, VoiceAudio, VoicePage, Citizens

VARIABLE part

packVars == <<part, boardVars, authVars, roomVars, docVars, audioVars, voiceVars, citizenVars>>

PackInit ==
  /\ part \in {"board", "auth", "room", "docs", "audio", "seats", "voice", "citizens"}
  /\ BoardInit /\ AuthInit /\ RoomInit /\ DocsInit /\ AudioInit /\ VoiceInit /\ CitizensInit
  \* What a part that was not picked might have begun with makes no difference.
  /\ part # "auth" => mode = "native" /\ account = [h \in Handles |-> Free]
  /\ part # "audio" => cast = {}
  /\ part # "citizens" => keepers = {}

PackNext ==
  \/ /\ part = "board" /\ BoardNext
     /\ UNCHANGED <<part, authVars, roomVars, docVars, audioVars, voiceVars, citizenVars>>
  \/ /\ part = "auth" /\ AuthNext
     /\ UNCHANGED <<part, boardVars, roomVars, docVars, audioVars, voiceVars, citizenVars>>
  \/ /\ part = "room" /\ RoomNext
     /\ UNCHANGED <<part, boardVars, authVars, docVars, audioVars, voiceVars, citizenVars>>
  \/ /\ part = "docs" /\ DocsNext
     /\ UNCHANGED <<part, boardVars, authVars, roomVars, audioVars, voiceVars, citizenVars>>
  \/ /\ part \in {"audio", "seats"} /\ AudioNext
     /\ part = "audio" /\ Keeper => UNCHANGED <<seat, floor>>
     /\ part = "seats" => UNCHANGED <<bargeIns, arriving, late, stale, carry, pacer>>
     /\ UNCHANGED <<part, boardVars, authVars, roomVars, docVars, voiceVars, citizenVars>>
  \/ /\ part = "voice" /\ VoiceNext
     /\ UNCHANGED <<part, boardVars, authVars, roomVars, docVars, audioVars, citizenVars>>
  \/ /\ part = "citizens" /\ CitizensNext
     /\ UNCHANGED <<part, boardVars, authVars, roomVars, docVars, audioVars, voiceVars>>

PackSpec == PackInit /\ [][PackNext]_packVars

\* Every variable of the part that moves keeps its type.
PackTypeOK ==
  /\ part = "board" => BoardTypeOK
  /\ part = "auth" => AuthTypeOK
  /\ part = "room" => RoomTypeOK
  /\ part = "docs" => DocsTypeOK
  /\ part \in {"audio", "seats"} => AudioTypeOK
  /\ part = "voice" => VoiceTypeOK
  /\ part = "citizens" => CitizensTypeOK

=============================================================================
