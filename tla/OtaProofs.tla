------------------------------ MODULE OtaProofs ------------------------------
(***************************************************************************)
(* The firmware update for files of any number of parts and any number of  *)
(* uploads: OtaInv is inductive, the answers are true, and every step is a *)
(* step of Firmware or a stutter.                                          *)
(***************************************************************************)
EXTENDS OtaUpdate, TLAPS

\* The two partitions.
LEMMA OtherSlot ==
  ASSUME NEW s \in Slots
  PROVE  Other(s) \in Slots /\ Other(s) # s
BY DEF Slots, Other

\* Erasing the target leaves the partition that boots alone.
LEMMA EraseKeeps ==
  ASSUME OtaInv, pc = "begin", slot' = [slot EXCEPT ![Target] = Image(uploads, 0)]
  PROVE  /\ slot' \in [Slots -> Images]
         /\ slot'[boot] = slot[boot]
         /\ slot'[Target] = Image(uploads, 0)
<1>1. Target \in Slots /\ Target # boot /\ boot \in Slots
  BY OtherSlot DEF Target, OtaInv, TypeOK, RunsWhatBoots
<1>2. Image(uploads, 0) \in Images
  BY PartsAssumption DEF Image, Images, OtaInv, TypeOK
<1> QED
  BY <1>1, <1>2 DEF OtaInv, TypeOK

LEMMA InitInv == Init => OtaInv
<1> SUFFICES ASSUME Init PROVE OtaInv
  OBVIOUS
<1> USE PartsAssumption DEF Init
<1>1. slot \in [Slots -> Images]
  BY DEF Slots, Image, Images
<1>2. slot[boot] = Image(0, Parts)
  BY DEF Slots
<1>3. TypeOK
  <2>1. file \in Files
    BY DEF Files
  <2>2. boot \in Slots /\ running \in Slots
    BY DEF Slots
  <2>3. received \in 0..Parts /\ uploads \in 0..MaxUploads /\ offered \subseteq 0..uploads
    OBVIOUS
  <2>4. stalled \in BOOLEAN
    OBVIOUS
  <2> QED
    BY <1>1, <2>1, <2>2, <2>3, <2>4 DEF TypeOK
<1>4. BootIsWhole
  BY <1>2 DEF BootIsWhole, Whole, Image
<1>5. RunsWhatBoots /\ TargetIsUpload
  BY DEF RunsWhatBoots, TargetIsUpload
<1>6. AnswerFits
  BY <1>2 DEF AnswerFits, Image
<1> QED
  BY <1>3, <1>4, <1>5, <1>6 DEF OtaInv

LEMMA PostStep ==
  ASSUME OtaInv, NEW f \in Files, Post(f)
  PROVE  OtaInv'
<1> USE DEF Post
<1>1. uploads \in Nat /\ uploads' = uploads + 1 /\ uploads' \in 0..MaxUploads
  BY PartsAssumption DEF OtaInv, TypeOK
<1>2. offered \subseteq offered' /\ offered' \subseteq 0..uploads'
  BY <1>1 DEF OtaInv, TypeOK
<1>3. TypeOK'
  <2>1. slot' \in [Slots -> Images] /\ boot' \in Slots /\ running' \in Slots /\ file' \in Files
    BY DEF OtaInv, TypeOK
  <2>2. received' \in 0..Parts
    BY PartsAssumption
  <2>3. stalled' \in BOOLEAN /\ answer' = "none" /\ pc' = "begin"
    OBVIOUS
  <2> QED
    BY <1>1, <1>2, <2>1, <2>2, <2>3 DEF TypeOK
<1>4. BootIsWhole' /\ RunsWhatBoots'
  BY <1>2 DEF OtaInv, BootIsWhole, RunsWhatBoots, Whole
<1>5. slot[boot].of \in 0..MaxUploads
  BY DEF OtaInv, TypeOK, Images
<1>6. TargetIsUpload' /\ AnswerFits'
  <2>1. received' = 0 /\ 0 <= file'.parts /\ slot'[boot'].of = slot[boot].of
    BY DEF Files
  <2>2. file'.image /\ file'.parts = Parts => uploads' \in offered'
    OBVIOUS
  <2>3. pc' = "begin" /\ answer' = "none"
    OBVIOUS
  <2>4. slot[boot].of <= uploads
    BY DEF OtaInv, AnswerFits
  <2> QED
    BY <1>1, <1>5, <2>1, <2>2, <2>3, <2>4 DEF TargetIsUpload, AnswerFits
<1> QED
  BY <1>3, <1>4, <1>6 DEF OtaInv

\* Steps that touch neither the partitions nor the upload.
LEMMA QuietStep ==
  ASSUME OtaInv,
         UNCHANGED <<slot, boot, file, received, uploads, offered>>,
         \/ PowerLoss \/ Boot \/ Stall
         \/ Timeout \/ EndOfFile \/ ReceiveFails
         \/ End \/ EndFails \/ ChooseFails \/ Restart
  PROVE  OtaInv'
<1>1. running' = running \/ (Boot /\ running' = boot)
  BY DEF PowerLoss, Boot, Stall, Timeout, EndOfFile, ReceiveFails, End, EndFails,
         ChooseFails, Restart, OtaInv, BootIsWhole, uploadVars
<1>2. stalled' \in BOOLEAN
  BY DEF PowerLoss, Boot, Stall, Timeout, EndOfFile, ReceiveFails, End, EndFails,
         ChooseFails, Restart, OtaInv, TypeOK, uploadVars
<1>3. /\ pc' \in {"idle", "receive", "end", "choose", "off"}
      /\ answer' \in {"none", "failed", "success"}
  BY DEF PowerLoss, Boot, Stall, Timeout, GivesUp, EndOfFile, ReceiveFails, End, EndFails,
         ChooseFails, Restart, Goes, Fails, OtaInv, TypeOK, uploadVars
<1>4. TypeOK'
  BY <1>1, <1>2, <1>3 DEF OtaInv, TypeOK
<1>5. BootIsWhole'
  BY DEF OtaInv, BootIsWhole, Whole
<1>6. RunsWhatBoots'
  <2>1. pc' # "off" => (pc \notin {"off", "restart"} \/ Boot)
    BY DEF PowerLoss, Boot, Stall, Timeout, EndOfFile, ReceiveFails, End, EndFails,
           ChooseFails, Restart, Goes, Fails
  <2>2. Boot => running' = boot
    BY DEF Boot, OtaInv, BootIsWhole
  <2> QED
    BY <1>1, <2>1, <2>2 DEF OtaInv, RunsWhatBoots
<1>7. TargetIsUpload'
  <2>1. /\ pc' \in {"receive", "end", "choose"} => pc \in {"receive", "end"} /\ running' = running
        /\ pc' # "begin"
    BY DEF PowerLoss, Boot, Stall, Timeout, GivesUp, EndOfFile, ReceiveFails, End, EndFails,
           ChooseFails, Restart, Goes, Fails, uploadVars
  <2>2. pc' = "choose" => Whole(slot[Target])
    BY DEF PowerLoss, Boot, Stall, Timeout, GivesUp, EndOfFile, ReceiveFails, End, EndFails,
           ChooseFails, Restart, Goes, Fails, Verified
  <2> QED
    BY <2>1, <2>2 DEF OtaInv, TargetIsUpload, Target, Whole
<1>8. AnswerFits'
  <2>1. \/ answer' = answer
        \/ answer' = "failed" /\ pc' = "idle" /\ pc \in {"receive", "end", "choose"}
    BY DEF PowerLoss, Boot, Stall, Timeout, EndOfFile, ReceiveFails, End, EndFails,
           ChooseFails, Restart, Goes, Fails
  <2>2. /\ pc' \in {"receive", "end", "choose"} => pc \in {"receive", "end", "choose"}
        /\ pc' # "begin" /\ pc' # "restart"
    BY <1>3, <2>1 DEF PowerLoss, Boot, Stall, Timeout, GivesUp, EndOfFile, ReceiveFails, End, EndFails,
           ChooseFails, Restart, Goes, Fails
  <2> QED
    BY <2>1, <2>2 DEF OtaInv, AnswerFits
<1> QED
  BY <1>4, <1>5, <1>6, <1>7, <1>8 DEF OtaInv

\* esp_ota_begin, whether or not it reports success.
LEMMA BeginStep ==
  ASSUME OtaInv, Begin \/ BeginFails
  PROVE  OtaInv' /\ slot'[boot] = slot[boot]
<1> USE DEF Begin, BeginFails, Goes, Fails, uploadVars
<1>1. pc = "begin" /\ UNCHANGED <<boot, running, uploadVars>>
  OBVIOUS
<1>2. slot' \in [Slots -> Images] /\ slot'[boot] = slot[boot]
  <2>1. CASE slot' = slot
    BY <2>1 DEF OtaInv, TypeOK
  <2>2. CASE slot' = [slot EXCEPT ![Target] = Image(uploads, 0)]
    BY <1>1, <2>2, EraseKeeps
  <2> QED
    BY <2>1, <2>2
<1>3. pc' = "receive" => slot'[Target] = Image(uploads, 0) /\ answer' = answer
  BY EraseKeeps
<1>4. TypeOK'
  BY <1>2 DEF OtaInv, TypeOK
<1>5. BootIsWhole' /\ RunsWhatBoots'
  BY <1>2 DEF OtaInv, BootIsWhole, RunsWhatBoots, Whole
<1>6. AnswerFits'
  BY <1>2 DEF OtaInv, AnswerFits
<1>7. TargetIsUpload'
  BY <1>3 DEF OtaInv, TargetIsUpload, Target
<1> QED
  BY <1>2, <1>4, <1>5, <1>6, <1>7 DEF OtaInv

\* A part is written, or refused.
LEMMA ReceiveStep ==
  ASSUME OtaInv, Receive \/ WriteFails
  PROVE  OtaInv' /\ slot'[boot] = slot[boot]
<1> USE DEF Receive, WriteFails, Goes, Fails
<1>1. /\ pc = "receive" /\ pc' \in {"receive", "idle"}
      /\ UNCHANGED <<boot, running, file, stalled, uploads, offered>>
      /\ received < file.parts /\ received' = received + 1
  OBVIOUS
<1>2. /\ Target \in Slots /\ Target # boot /\ boot \in Slots
      /\ slot[Target] = Image(uploads, received)
  BY OtherSlot DEF Target, OtaInv, TypeOK, RunsWhatBoots, TargetIsUpload
<1>3. received' \in 0..Parts /\ Image(uploads, received') \in Images
  BY <1>1, PartsAssumption DEF OtaInv, TypeOK, Files, Image, Images
<1>4. CASE Receive
  <2>1. slot' = [slot EXCEPT ![Target] = Image(uploads, received')]
    <3>1. [slot[Target] EXCEPT !.parts = @ + 1] = Image(uploads, received')
      BY <1>1, <1>2 DEF Image
    <3> QED
      BY <1>4, <3>1
  <2>2. /\ slot' \in [Slots -> Images] /\ slot'[boot] = slot[boot]
        /\ slot'[Target] = Image(uploads, received')
    BY <1>2, <1>3, <2>1 DEF OtaInv, TypeOK
  <2>3. TypeOK'
    BY <1>1, <1>3, <1>4, <2>2 DEF OtaInv, TypeOK
  <2>4. BootIsWhole' /\ RunsWhatBoots'
    BY <1>1, <1>4, <2>2 DEF OtaInv, BootIsWhole, RunsWhatBoots, Whole
  <2>5. TargetIsUpload'
    <3>1. received' <= file.parts
      BY <1>1 DEF OtaInv, TypeOK, Files
    <3> QED
      BY <1>1, <1>4, <2>2, <3>1 DEF OtaInv, TargetIsUpload, Target
  <2>6. AnswerFits'
    BY <1>1, <1>4, <2>2 DEF OtaInv, AnswerFits
  <2> QED
    BY <2>2, <2>3, <2>4, <2>5, <2>6 DEF OtaInv
<1>5. CASE WriteFails
  <2>1. TypeOK'
    BY <1>1, <1>3, <1>5 DEF OtaInv, TypeOK
  <2>2. BootIsWhole' /\ RunsWhatBoots' /\ TargetIsUpload'
    BY <1>1, <1>5 DEF OtaInv, BootIsWhole, RunsWhatBoots, TargetIsUpload, Whole
  <2>3. AnswerFits'
    BY <1>1, <1>5 DEF OtaInv, AnswerFits
  <2> QED
    BY <1>5, <2>1, <2>2, <2>3 DEF OtaInv
<1> QED
  BY <1>4, <1>5

\* esp_ota_set_boot_partition: the target is a whole version, newer than the one that
\* was chosen before.
LEMMA ChooseStep ==
  ASSUME OtaInv, Choose
  PROVE  /\ OtaInv'
         /\ Whole(slot'[boot']) /\ slot'[boot'].of \in offered
         /\ slot'[boot'].of > slot[boot].of
<1> USE DEF Choose, Chooses, uploadVars
<1>1. Target \in Slots /\ slot[Target] = Image(uploads, received) /\ Whole(slot[Target])
  BY OtherSlot DEF Target, OtaInv, TypeOK, TargetIsUpload
<1>2. uploads \in offered
  BY <1>1, PartsAssumption DEF OtaInv, TypeOK, TargetIsUpload, Files, Whole, Image
<1>3. slot'[boot'] = Image(uploads, received) /\ Image(uploads, received).of = uploads
  BY <1>1 DEF Image
<1>4. slot[boot].of < uploads
  BY DEF OtaInv, AnswerFits
<1>5. slot[boot].of \in Nat /\ uploads \in Nat
  BY DEF OtaInv, TypeOK, Images
<1>6. TypeOK'
  BY <1>1 DEF OtaInv, TypeOK
<1>7. BootIsWhole'
  BY <1>1, <1>2, <1>3 DEF BootIsWhole, Whole
<1>8. RunsWhatBoots' /\ TargetIsUpload'
  BY DEF RunsWhatBoots, TargetIsUpload
<1>9. AnswerFits'
  BY <1>3, <1>5 DEF AnswerFits
<1> QED
  BY <1>1, <1>2, <1>3, <1>4, <1>5, <1>6, <1>7, <1>8, <1>9 DEF OtaInv

\* What any step of the specification can be.
LEMMA Steps ==
  ASSUME OtaInv, Next
  PROVE  \/ \E f \in Files : Post(f)
         \/ Begin \/ BeginFails
         \/ Receive \/ WriteFails
         \/ Choose
         \/ /\ UNCHANGED <<slot, boot, file, received, uploads, offered>>
            /\ \/ PowerLoss \/ Boot \/ Stall
               \/ Timeout \/ EndOfFile \/ ReceiveFails
               \/ End \/ EndFails \/ ChooseFails \/ Restart
BY DEF Next, Handler, PowerLoss, Boot, Stall, Timeout, EndOfFile, ReceiveFails, End, EndFails,
       ChooseFails, Restart, uploadVars

LEMMA StepInv == OtaInv /\ [Next]_vars => OtaInv'
<1> SUFFICES ASSUME OtaInv, [Next]_vars PROVE OtaInv'
  OBVIOUS
<1>1. CASE Next
  BY <1>1, Steps, PostStep, BeginStep, ReceiveStep, ChooseStep, QuietStep
<1>2. CASE UNCHANGED vars
  BY <1>2 DEF vars, uploadVars, OtaInv, TypeOK, BootIsWhole, RunsWhatBoots, TargetIsUpload,
              AnswerFits, Whole, Target
<1> QED
  BY <1>1, <1>2

\* The invariant of the update: the partition that boots is whole and of an uploaded
\* version, the other one holds exactly the parts that came of the upload that runs.
THEOREM OtaInvariant == Spec => []OtaInv
<1>1. Init => OtaInv
  BY InitInv
<1>2. OtaInv /\ [Next]_vars => OtaInv'
  BY StepInv
<1> QED
  BY <1>1, <1>2, PTL DEF Spec

\* "Update Success" is answered exactly for a version that the next boot runs.
THEOREM AnswersAreTrue == Spec => []AnswerIsTrue
<1>1. OtaInv => AnswerIsTrue
  <2> SUFFICES ASSUME OtaInv PROVE AnswerIsTrue
    OBVIOUS
  <2>1. slot[boot].of \in Nat /\ uploads \in Nat
    BY DEF OtaInv, TypeOK, Images
  <2>2. answer \in {"none", "failed", "success"}
    BY DEF OtaInv, TypeOK
  <2>3. answer = "failed" => slot[boot].of # uploads
    BY <2>1 DEF OtaInv, AnswerFits
  <2>4. answer = "success" => slot[boot].of = uploads
    BY DEF OtaInv, AnswerFits
  <2> QED
    BY <2>2, <2>3, <2>4 DEF AnswerIsTrue
<1> QED
  BY <1>1, OtaInvariant, PTL

\* Every step is a step of Firmware or a stutter: only a successful choice changes what
\* the board boots, only a POST of a whole file what was offered.
LEMMA StepRefines ==
  OtaInv /\ OtaInv' /\ [Next]_vars =>
    [Atomic!Next]_<<IF Whole(slot[boot]) THEN slot[boot].of ELSE -1, offered>>
<1> SUFFICES ASSUME OtaInv, OtaInv', [Next]_vars
             PROVE  [Atomic!Next]_<<IF Whole(slot[boot]) THEN slot[boot].of ELSE -1, offered>>
  OBVIOUS
<1>1. Whole(slot[boot]) /\ Whole(slot'[boot'])
  BY DEF OtaInv, BootIsWhole, Whole
<1>2. CASE Choose
  <2>1. slot'[boot'].of \in offered /\ slot'[boot'].of > slot[boot].of /\ UNCHANGED offered
    BY <1>2, ChooseStep DEF Choose, uploadVars
  <2> QED
    BY <1>1, <2>1 DEF Atomic!Next, Atomic!Install, Whole
<1>3. ASSUME NEW f \in Files, Post(f)
      PROVE  offered \subseteq offered' /\ UNCHANGED <<slot, boot>>
  BY <1>3 DEF Post
<1>4. ASSUME Begin \/ BeginFails \/ Receive \/ WriteFails
      PROVE  slot'[boot'] = slot[boot] /\ UNCHANGED offered
  <2>1. UNCHANGED <<boot, offered>>
    BY <1>4 DEF Begin, BeginFails, Receive, WriteFails, uploadVars
  <2> QED
    BY <1>4, <2>1, BeginStep, ReceiveStep
<1>5. CASE ~Choose
  <2>1. slot'[boot'] = slot[boot] /\ offered \subseteq offered'
    BY <1>3, <1>4, <1>5, Steps DEF vars, uploadVars
  <2> QED
    BY <1>1, <2>1 DEF Atomic!Next, Atomic!Offer, Whole
<1> QED
  BY <1>2, <1>5

\* The update is atomic: it implements Firmware.
THEOREM ImplementsFirmware == Spec => AtomicUpdate
<1>1. Init => Atomic!Init
  <2> SUFFICES ASSUME Init PROVE Atomic!Init
    OBVIOUS
  <2>1. slot[boot] = Image(0, Parts)
    BY DEF Init, Slots
  <2> QED
    BY <2>1 DEF Init, Atomic!Init, Whole, Image
<1>2. OtaInv /\ OtaInv' /\ [Next]_vars =>
        [Atomic!Next]_<<IF Whole(slot[boot]) THEN slot[boot].of ELSE -1, offered>>
  BY StepRefines
<1> QED
  BY <1>1, <1>2, OtaInvariant, PTL DEF Spec, AtomicUpdate, Atomic!Spec
=============================================================================
