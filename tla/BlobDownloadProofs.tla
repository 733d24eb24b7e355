------------------------- MODULE BlobDownloadProofs -------------------------
(***************************************************************************)
(* What BlobDownload states, for every limit, every size and every stream. *)
(***************************************************************************)
EXTENDS BlobDownload, TLAPS

(* While a stream is read, the file is exactly what was counted, and what
   was counted fits; the request stays as it was checked. *)
Accepted == ValidRequest /\ Promising(remote)

Progress ==
  /\ phase \in {"called", "checked"} => ~mine /\ total = 0
  /\ phase \in {"checked", "streaming", "returned"} => Accepted
  /\ phase = "streaming" => mine /\ file = total /\ Fits(total)

DownloadInv ==
  TypeOK /\ Progress /\ WithinLimits /\ ReturnedIsWhole /\ RefusedLeavesNothing

LEMMA InitEstablishes ==
  ASSUME Init
  PROVE  DownloadInv
<1>1. TypeOK
  <2>1. expected \in Nat \cup {None} /\ file \in Nat \cup {None} /\ remote \in Nat \cup {None}
    BY DownloadAssumption DEF Init
  <2> QED
    BY <2>1 DEF Init, TypeOK, Phases
<1>2. Progress /\ WithinLimits /\ ReturnedIsWhole /\ RefusedLeavesNothing
  BY DEF Init, Progress, WithinLimits, ReturnedIsWhole, RefusedLeavesNothing
<1> QED
  BY <1>1, <1>2 DEF DownloadInv

(* A call that ends without a file, or with an untouched foreign one. *)
LEMMA EndsEmpty ==
  ASSUME DownloadInv, phase' \in {"refused", "interrupted"},
         UNCHANGED <<expected, remote, mine>>, total' \in Nat,
         file' = None \/ (~mine /\ file' = file)
  PROVE  DownloadInv'
BY DEF DownloadInv, TypeOK, Phases, Progress, Accepted, ValidRequest, Promising,
       WithinLimits, ReturnedIsWhole, RefusedLeavesNothing

(* A call that ends and leaves a file of its own behind, because deleting it
   fails or because it was interrupted. *)
LEMMA EndsUnclean ==
  ASSUME DownloadInv, phase = "streaming", phase' \in {"refused", "interrupted"},
         UNCHANGED <<expected, remote, mine>>, total' \in Nat,
         phase' = "refused" => "unlink" \in Faults,
         file' \in Nat, Fits(file')
  PROVE  DownloadInv'
BY DEF DownloadInv, TypeOK, Phases, Progress, Fits, WithinLimits, ReturnedIsWhole,
       RefusedLeavesNothing

LEMMA RefuseKeeps ==
  ASSUME DownloadInv, phase = "streaming", Refuse,
         UNCHANGED <<expected, remote, mine>>, total' \in Nat
  PROVE  DownloadInv'
<1>1. CASE file' = None
  BY <1>1, EndsEmpty DEF Refuse
<1>2. CASE file' = file /\ "unlink" \in Faults
  BY <1>2, EndsUnclean DEF Refuse, DownloadInv, TypeOK, Progress
<1> QED
  BY <1>1, <1>2 DEF Refuse

LEMMA CheckPropertiesKeeps ==
  ASSUME DownloadInv, CheckProperties
  PROVE  DownloadInv'
<1>1. PICK size \in RemoteSizes :
        IF ValidRequest /\ file = None /\ Promising(size)
        THEN phase' = "checked" /\ remote' = size /\ UNCHANGED file
        ELSE RefuseEarly /\ UNCHANGED remote
  BY DEF CheckProperties
<1>2. /\ phase = "called" /\ ~mine /\ UNCHANGED <<expected, total, mine>>
      /\ total' \in Nat
  BY DEF CheckProperties, DownloadInv, Progress, TypeOK
<1>3. CASE RefuseEarly /\ UNCHANGED remote
  BY <1>2, <1>3, EndsEmpty DEF RefuseEarly
<1>4. CASE /\ ValidRequest /\ file = None /\ Promising(size)
           /\ phase' = "checked" /\ remote' = size /\ UNCHANGED file
  BY <1>1, <1>2, <1>4, DownloadAssumption
    DEF DownloadInv, TypeOK, Phases, Progress, Accepted, ValidRequest, Promising,
        WithinLimits, ReturnedIsWhole, RefusedLeavesNothing
<1> QED
  BY <1>1, <1>3, <1>4

LEMMA OpenStreamKeeps ==
  ASSUME DownloadInv, OpenStream
  PROVE  DownloadInv'
<1>1. /\ phase = "checked" /\ ~mine
      /\ UNCHANGED <<expected, remote, total>> /\ total' \in Nat
  BY DEF OpenStream, DownloadInv, Progress, TypeOK
<1>2. CASE Refuse /\ UNCHANGED mine
  BY <1>1, <1>2, EndsEmpty DEF Refuse
<1>3. CASE phase' = "streaming" /\ file' = 0 /\ mine' = TRUE
  BY <1>1, <1>3, DownloadAssumption
    DEF DownloadInv, TypeOK, Phases, Progress, Accepted, ValidRequest, Promising, Fits,
        WithinLimits, ReturnedIsWhole, RefusedLeavesNothing
<1> QED
  BY <1>2, <1>3 DEF OpenStream

LEMMA FileAppearsKeeps ==
  ASSUME DownloadInv, FileAppears
  PROVE  DownloadInv'
BY DEF FileAppears, DownloadInv, TypeOK, Phases, Progress, Accepted, ValidRequest, Promising,
       WithinLimits, ReturnedIsWhole, RefusedLeavesNothing

LEMMA ReceiveChunkKeeps ==
  ASSUME DownloadInv, ReceiveChunk
  PROVE  DownloadInv'
<1>1. PICK chunk \in Chunks :
        /\ total' = total + chunk
        /\ IF Fits(total') THEN file' = file + chunk /\ UNCHANGED phase ELSE Refuse
  BY DEF ReceiveChunk
<1>2. /\ phase = "streaming" /\ UNCHANGED <<expected, remote, mine>>
      /\ total' \in Nat
  BY <1>1, DownloadAssumption DEF ReceiveChunk, DownloadInv, TypeOK
<1>3. CASE Refuse
  BY <1>2, <1>3, RefuseKeeps
<1>4. CASE Fits(total') /\ file' = file + chunk /\ UNCHANGED phase
  <2>1. file' = total' /\ file' \in Nat
    BY <1>1, <1>2, <1>4, DownloadAssumption DEF DownloadInv, TypeOK, Progress
  <2> QED
    BY <1>2, <1>4, <2>1
      DEF DownloadInv, TypeOK, Phases, Progress, Accepted, ValidRequest, Promising, Fits,
          WithinLimits, ReturnedIsWhole, RefusedLeavesNothing
<1> QED
  BY <1>1, <1>3, <1>4

LEMMA EndOfStreamKeeps ==
  ASSUME DownloadInv, EndOfStream
  PROVE  DownloadInv'
<1>1. phase = "streaming" /\ UNCHANGED <<expected, remote, total, mine>> /\ total' \in Nat
  BY DEF EndOfStream, DownloadInv, TypeOK
<1>2. CASE Refuse
  BY <1>1, <1>2, RefuseKeeps
<1>3. CASE Whole /\ phase' = "returned" /\ UNCHANGED file
  BY <1>1, <1>3
    DEF DownloadInv, TypeOK, Phases, Progress, Accepted, ValidRequest, Promising, Fits,
        Whole, WithinLimits, ReturnedIsWhole, RefusedLeavesNothing
<1> QED
  BY <1>2, <1>3 DEF EndOfStream

LEMMA IoFailsKeeps ==
  ASSUME DownloadInv, IoFails
  PROVE  DownloadInv'
<1>1. UNCHANGED <<expected, remote, total, mine>> /\ total' \in Nat
  BY DEF IoFails, DownloadInv, TypeOK
<1>2. CASE phase = "called" /\ RefuseEarly
  BY <1>1, <1>2, EndsEmpty DEF RefuseEarly, DownloadInv, Progress
<1>3. CASE phase = "checked" /\ Refuse
  BY <1>1, <1>3, EndsEmpty DEF Refuse, DownloadInv, Progress
<1>4. CASE phase = "streaming" /\ Refuse
  BY <1>1, <1>4, RefuseKeeps
<1>5. ASSUME phase = "streaming", "unlink" \in Faults, phase' = "refused",
             NEW chunk \in Chunks, Fits(total + chunk), file' \in file .. file + chunk
      PROVE  DownloadInv'
  <2>1. file = total /\ total \in Nat /\ chunk \in Nat
    BY <1>5, DownloadAssumption DEF DownloadInv, TypeOK, Progress
  <2>2. file' \in Nat /\ file' <= total + chunk
    BY <1>5, <2>1
  <2>3. Fits(file')
    BY <1>5, <2>1, <2>2, DownloadAssumption DEF Fits, DownloadInv, TypeOK
  <2> QED
    BY <1>1, <1>5, <2>2, <2>3, EndsUnclean
<1> QED
  BY <1>2, <1>3, <1>4, <1>5 DEF IoFails

LEMMA InterruptKeeps ==
  ASSUME DownloadInv, Interrupt
  PROVE  DownloadInv'
<1>1. /\ phase' = "interrupted" /\ UNCHANGED <<expected, remote, total, file, mine>>
      /\ total' \in Nat
  BY DEF Interrupt, DownloadInv, TypeOK
<1>2. CASE phase \in {"called", "checked"}
  BY <1>1, <1>2, EndsEmpty DEF DownloadInv, Progress
<1>3. CASE phase = "streaming"
  BY <1>1, <1>3, EndsUnclean DEF DownloadInv, Progress, TypeOK
<1> QED
  BY <1>2, <1>3 DEF Interrupt

(* The inductive invariant of a download, the properties below included. *)
THEOREM DownloadCorrect == Spec => []DownloadInv
<1>1. Init => DownloadInv
  BY InitEstablishes
<1>2. DownloadInv /\ [Next]_vars => DownloadInv'
  <2> SUFFICES ASSUME DownloadInv, [Next]_vars
               PROVE  DownloadInv'
    OBVIOUS
  <2>1. CASE UNCHANGED vars
    BY <2>1
      DEF vars, DownloadInv, TypeOK, Progress, Accepted, ValidRequest, Promising, Fits,
          WithinLimits, ReturnedIsWhole, RefusedLeavesNothing
  <2> QED
    BY <2>1, CheckPropertiesKeeps, OpenStreamKeeps, ReceiveChunkKeeps, EndOfStreamKeeps,
       IoFailsKeeps, InterruptKeeps, FileAppearsKeeps DEF Next
<1> QED
  BY <1>1, <1>2, PTL DEF Spec

(* However the sizes and the chunks disagree, the file stays within limits. *)
THEOREM FileWithinLimits == Spec => []WithinLimits
<1>1. DownloadInv => WithinLimits
  BY DEF DownloadInv
<1> QED
  BY <1>1, DownloadCorrect, PTL

(* A download that returns is the whole blob and has the expected size. *)
THEOREM OnlyWholeBlobs == Spec => []ReturnedIsWhole
<1>1. DownloadInv => ReturnedIsWhole
  BY DEF DownloadInv
<1> QED
  BY <1>1, DownloadCorrect, PTL

(* Unless deleting fails, nothing stays behind of a refused download. *)
THEOREM NoLeftovers == Spec => []RefusedLeavesNothing
<1>1. DownloadInv => RefusedLeavesNothing
  BY DEF DownloadInv
<1> QED
  BY <1>1, DownloadCorrect, PTL

(* Whenever another program's file appears, it is not written to, and only
   one that appeared in the gap can be deleted. *)
THEOREM NothingOverwritten == Spec => NeverOverwrites
<1>1. DownloadInv /\ [Next]_vars =>
        [~mine /\ file # None =>
           \/ file' = file
           \/ phase = "checked" /\ phase' = "refused" /\ file' = None]_vars
  <2> SUFFICES ASSUME DownloadInv, Next, ~mine, file # None, file' # file
               PROVE  phase = "checked" /\ phase' = "refused" /\ file' = None
    BY DEF vars
  <2>1. phase # "streaming"
    BY DEF DownloadInv, Progress
  <2>2. OpenStream \/ IoFails
    BY <2>1 DEF Next, CheckProperties, RefuseEarly, ReceiveChunk, EndOfStream, Interrupt,
                FileAppears
  <2>3. phase = "checked" /\ Refuse
    BY <2>1, <2>2 DEF OpenStream, IoFails, RefuseEarly
  <2> QED
    BY <2>3 DEF Refuse
<1> QED
  BY <1>1, DownloadCorrect, PTL DEF Spec, NeverOverwrites
=============================================================================
