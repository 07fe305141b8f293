------------------------------ MODULE OtaUpdate ------------------------------
(***************************************************************************)
(* /update of osj_http.c: a firmware file is received into the partition   *)
(* the board does not run and then chosen for the next boot.  The board    *)
(* has two such partitions (partitions.csv) and one httpd task, so one     *)
(* upload at a time and no /reboot during it.                              *)
(*                                                                         *)
(* The OTA library is modelled by what the handler relies on: begin        *)
(* erases, write appends and refuses a first part that is no image,        *)
(* end and set_boot_partition refuse what is not a complete image, the     *)
(* choice is one atomic write, and each of them may fail.  sdkconfig has   *)
(* no rollback, so the mark that main.c sets at boot changes nothing.      *)
(***************************************************************************)
EXTENDS Integers

CONSTANTS
  Parts,       \* of a whole file: pieces of at most 1024 bytes, one per recv
  MaxUploads   \* bound on the uploads, which number the versions

ASSUME PartsAssumption == Parts \in Nat \ {0} /\ MaxUploads \in Nat

Slots == {0, 1}
Other(s) == 1 - s

\* The first parts of a version; 0 is the one the board was delivered with.
Image(v, n) == [of |-> v, parts |-> n]
Images == [of : 0..MaxUploads, parts : 0..Parts]
Files  == [image : BOOLEAN, parts : 0..Parts]

VARIABLES
  slot,        \* the two partitions
  boot,        \* the one that otadata chooses
  running,     \* the one the board runs
  pc,          \* update_post_handler: "idle", "begin", "receive", "end",
               \* "choose", "restart"; "off" until the next boot
  file,        \* what the client is sending
  received,    \* parts of it that came
  stalled,     \* the client sends no more
  uploads,     \* number of the last upload
  answer,      \* history: the answer to it, "none" yet
  offered      \* history: versions whose whole file was posted

uploadVars == <<file, received, stalled, uploads, offered>>
vars == <<slot, boot, running, pc, answer, uploadVars>>

Init ==
  /\ slot = [s \in Slots |-> IF s = 0 THEN Image(0, Parts) ELSE Image(0, 0)]
  /\ boot = 0 /\ running = 0
  /\ pc = "idle"
  /\ file = [image |-> FALSE, parts |-> 0] /\ received = 0 /\ stalled = FALSE
  /\ uploads = 0 /\ answer = "none"
  /\ offered = {0}

Whole(image) == image.parts = Parts

-----------------------------------------------------------------------------
(* The client and the board.                                               *)

Post(f) ==
  /\ pc = "idle"
  /\ uploads < MaxUploads
  /\ uploads' = uploads + 1
  /\ file' = f /\ received' = 0 /\ stalled' = FALSE
  /\ offered' = IF f.image /\ f.parts = Parts THEN offered \cup {uploads'} ELSE offered
  /\ pc' = "begin" /\ answer' = "none"
  /\ UNCHANGED <<slot, boot, running>>

Stall ==
  /\ pc = "receive" /\ ~stalled
  /\ stalled' = TRUE
  /\ UNCHANGED <<slot, boot, running, pc, file, received, uploads, answer, offered>>

\* Power is lost or the running firmware crashes, at any step; or /reboot.
PowerLoss ==
  /\ pc # "off" /\ pc' = "off"
  /\ UNCHANGED <<slot, boot, running, answer, uploadVars>>

\* The bootloader tries the other partition when the chosen image is incomplete.
Boot ==
  /\ pc = "off" /\ pc' = "idle"
  /\ \/ Whole(slot[boot]) /\ running' = boot
     \/ ~Whole(slot[boot]) /\ Whole(slot[Other(boot)]) /\ running' = Other(boot)
  /\ UNCHANGED <<slot, boot, answer, uploadVars>>

-----------------------------------------------------------------------------
(* update_post_handler.                                                    *)

Fails == pc' = "idle" /\ answer' = "failed"
Goes(from, to) == pc = from /\ pc' = to /\ UNCHANGED answer

TargetFirst == 1                         \* mutant: always the second partition
Target == Other(running)

\* esp_ota_begin erases the partition; it may fail before or after.
Begin ==
  /\ Goes("begin", "receive")
  /\ slot' = [slot EXCEPT ![Target] = Image(uploads, 0)]
  /\ UNCHANGED <<boot, running, uploadVars>>

BeginFails ==
  /\ pc = "begin" /\ Fails
  /\ slot' \in {slot, [slot EXCEPT ![Target] = Image(uploads, 0)]}
  /\ UNCHANGED <<boot, running, uploadVars>>

\* A part comes and is written.
Receive ==
  /\ Goes("receive", "receive")
  /\ ~stalled /\ received < file.parts /\ file.image
  /\ received' = received + 1
  /\ slot' = [slot EXCEPT ![Target].parts = @ + 1]
  /\ UNCHANGED <<boot, running, file, stalled, uploads, offered>>

\* It is no part of an image, or the flash fails; esp_ota_end gives up the handle.
WriteFails ==
  /\ pc = "receive" /\ Fails
  /\ ~stalled /\ received < file.parts
  /\ received' = received + 1
  /\ UNCHANGED <<slot, boot, running, file, stalled, uploads, offered>>

\* A receive timeout ends the loop like the end of the file.
WaitsOn == UNCHANGED pc                  \* mutant: the handler tries again
GivesUp == pc' = "end"
Timeout ==
  /\ pc = "receive" /\ stalled
  /\ GivesUp
  /\ UNCHANGED <<slot, boot, running, answer, uploadVars>>

EndOfFile ==
  /\ Goes("receive", "end")
  /\ received = file.parts
  /\ UNCHANGED <<slot, boot, running, uploadVars>>

\* httpd_req_recv fails in another way.
ReceiveFails ==
  /\ pc = "receive" /\ Fails
  /\ UNCHANGED <<slot, boot, running, uploadVars>>

\* esp_ota_end.
AnyImage(image) == TRUE                  \* mutant: the result of esp_ota_end is ignored
Verified(image) == Whole(image)
End ==
  /\ Verified(slot[Target])
  /\ Goes("end", "choose")
  /\ UNCHANGED <<slot, boot, running, uploadVars>>

EndFails ==
  /\ pc = "end" /\ Fails
  /\ UNCHANGED <<slot, boot, running, uploadVars>>

\* esp_ota_set_boot_partition, and the answer.
ChoosesNot == UNCHANGED boot             \* mutant: the boot partition is not set
Chooses == boot' = Target
Choose ==
  /\ pc = "choose" /\ pc' = "restart"
  /\ Chooses
  /\ answer' = "success"
  /\ UNCHANGED <<slot, running, uploadVars>>

ChooseFails ==
  /\ pc = "choose" /\ Fails
  /\ UNCHANGED <<slot, boot, running, uploadVars>>

Restart ==
  /\ Goes("restart", "off")
  /\ UNCHANGED <<slot, boot, running, uploadVars>>

Handler == \/ Begin \/ BeginFails
           \/ Receive \/ WriteFails \/ Timeout \/ EndOfFile
           \/ End \/ EndFails \/ Choose \/ ChooseFails \/ Restart

Next == \/ \E f \in Files : Post(f)
        \/ Stall \/ ReceiveFails \/ PowerLoss \/ Boot \/ Handler

Spec == Init /\ [][Next]_vars

\* httpd runs, a receive that gets nothing times out, and power returns; a
\* connection need not break.
Fairness == WF_vars(Handler) /\ WF_vars(Boot)
FairSpec == Spec /\ Fairness

-----------------------------------------------------------------------------
TypeOK ==
  /\ slot \in [Slots -> Images] /\ boot \in Slots /\ running \in Slots
  /\ pc \in {"idle", "begin", "receive", "end", "choose", "restart", "off"}
  /\ file \in Files /\ received \in 0..Parts /\ stalled \in BOOLEAN
  /\ uploads \in 0..MaxUploads
  /\ answer \in {"none", "failed", "success"}
  /\ offered \subseteq 0..uploads

\* The board boots an image of an earlier time than the partition that is being
\* written, until that one is complete and chosen.
BootIsWhole == Whole(slot[boot]) /\ slot[boot].of \in offered
RunsWhatBoots == pc \notin {"off", "restart"} => running = boot
TargetIsUpload ==
  /\ pc = "begin" => received = 0
  /\ pc \in {"begin", "receive", "end", "choose"} =>
       /\ received <= file.parts /\ (received > 0 => file.image)
       /\ file.image /\ file.parts = Parts => uploads \in offered
  /\ pc \in {"receive", "end", "choose"} => slot[Target] = Image(uploads, received)
  /\ pc = "choose" => Whole(slot[Target])
AnswerFits ==
  /\ pc \in {"begin", "receive", "end", "choose"} => slot[boot].of < uploads /\ answer = "none"
  /\ pc = "restart" => answer = "success"
  /\ slot[boot].of <= uploads
  /\ answer = "failed" => slot[boot].of < uploads
  /\ answer = "success" => slot[boot].of = uploads

OtaInv == TypeOK /\ BootIsWhole /\ RunsWhatBoots /\ TargetIsUpload /\ AnswerFits

\* The update is safe against power losses, crashes, failed flash writes, timeouts
\* and truncated files between any two steps: the board always boots the old version
\* or the whole new one (update_post_handler, lines 317-380).
Atomic == INSTANCE Firmware
  WITH installed <- IF Whole(slot[boot]) THEN slot[boot].of ELSE -1

AtomicUpdate == Atomic!Spec

\* "Update Success" is answered for a version that the next boot runs, a failure for one
\* that it does not run, whatever happened in between (lines 332-378).
AnswerIsTrue == answer # "none" => (answer = "success" <=> slot[boot].of = uploads)

\* An upload does not keep the only httpd task for ever, even if the client stops
\* sending (lines 341-358).
ServesAgain == pc # "idle" ~> pc = "idle"
=============================================================================
