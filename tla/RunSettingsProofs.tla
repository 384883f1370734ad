------------------------- MODULE RunSettingsProofs -------------------------
(***************************************************************************)
(* RunSettings' invariant and its corollaries, for any number of updates,  *)
(* runs, events and faults, and any values of the lengths.                 *)
(*                                                                         *)
(* LengthInv carries the alignment of the file: while a run lasts, what    *)
(* the board is configured to, what is in force and what is pending all    *)
(* have the length that the file was opened with, since only a store that  *)
(* raced with start() or stop(), or settings left over, could bring in     *)
(* another.  OrderInv carries the fate of an update.  CallerInv says when  *)
(* a store cannot race; it rests on JoinInv: no reader outlives a stop()   *)
(* whose join did not time out.                                            *)
(***************************************************************************)
EXTENDS RunSettings, TLAPS

USE DEF user, file, notes

(* None is no settings, whatever the bounds.                                *)
LEMMA NoneIsNone == None \notin Settings /\ None.len = 0
BY DEF None, Settings

(* The length of settings is a length.                                      *)
LEMMA LengthType ==
  ASSUME NEW s \in Settings \union {None}
  PROVE  s.len \in Lengths \union {0}
BY NoneIsNone DEF Settings

(* Reading a bank applies what is pending, fails to, or only reads: what it *)
(* may do to the settings and to the reader.                                *)
LEMMA ReadBankCases ==
  ASSUME ReadBank
  PROVE  /\ reader = "cycle" /\ bank_len' = configured.len
         /\ UNCHANGED <<running, control, final, user, file, leftover, raced, overran>>
         /\ \/ /\ UNCHANGED <<configured, settings, pending, dropped>> /\ reader' = "decode"
            \/ /\ pending # None /\ pending' = None /\ configured' = pending
               /\ settings' = pending /\ UNCHANGED dropped
               /\ reader' \in {"decode", "wait", "failed", "off"}
            \/ /\ pending # None /\ pending' = None /\ configured' \in {configured, pending}
               /\ settings' = settings /\ dropped' = TRUE
               /\ reader' \in {"wait", "failed", "off"}
<1>1. /\ reader = "cycle" /\ bank_len' = configured.len
      /\ UNCHANGED <<running, control, final, user, file, leftover, raced, overran>>
  BY Zenon DEF ReadBank
<1>2. CASE pending # None /\ ~final
  <2>1. ApplyPending BY <1>2, Zenon DEF ReadBank
  <2>2. pending' = None BY <2>1, Zenon DEF ApplyPending, TakePending
  <2> QED BY <1>1, <1>2, <2>1, <2>2, Zenon DEF ApplyPending, Configure, InForce
<1>3. CASE ~(pending # None /\ ~final)
  BY <1>1, <1>3, Zenon DEF ReadBank
<1> QED BY <1>2, <1>3

(* Every action preserves the type invariant.                               *)
LEMMA TypeStep == ASSUME TypeOK, Next PROVE TypeOK'
<1> USE RunSettingsAssumption DEF TypeOK
<1>1. CASE StartBoard
  <2>1. configured' \in {configured, settings} /\ control' \in {"idle", "add"}
        /\ leftover' \in BOOLEAN
    BY <1>1, Zenon DEF StartBoard, Configure
  <2>2. UNCHANGED <<settings, pending, running, reader, final, bank_len, user, file, raced,
                    dropped, overran>>
    BY <1>1 DEF StartBoard
  <2> QED BY <2>1, <2>2
<1>12. CASE AddBoard
  <2>1. file_len' \in Lengths \union {0}
    BY <1>12, LengthType DEF AddBoard
  <2>2. torn' \in BOOLEAN
    BY <1>12, Zenon DEF AddBoard, NewFile
  <2>3. rows' = 0 /\ waves' = 0 /\ control' = "go"
        /\ UNCHANGED <<settings, pending, configured, running, reader, final, bank_len, user,
                       notes>>
    BY <1>12 DEF AddBoard, NewFile
  <2> QED BY <2>1, <2>2, <2>3
<1>13. CASE StartReader
  BY <1>13 DEF StartReader
<1>14. CASE JoinEnds
  <2>1. overran' \in BOOLEAN BY <1>14, Zenon DEF JoinEnds
  <2> QED BY <1>14, <2>1 DEF JoinEnds
<1>15. CASE WriteFails
  <2>1. PICK n \in 0..(MaxRows - rows) :
             \E m \in 0..n : rows' = rows + n /\ waves' = waves + m
    BY <1>15 DEF WriteFails
  <2>2. rows' \in 0..MaxRows /\ waves' \in 0..rows'
    BY <2>1
  <2> QED BY <1>15, <2>2 DEF WriteFails
<1>16. CASE ReaderDies
  BY <1>16 DEF ReaderDies
<1>2. CASE Stop
  <2>1. running' \in BOOLEAN /\ control' = "join"
    BY <1>2, Zenon DEF Stop
  <2>2. UNCHANGED <<settings, pending, configured, reader, final, bank_len, user, file, notes>>
    BY <1>2 DEF Stop
  <2> QED BY <2>1, <2>2
<1>3. CASE CheckUpdate
  <2>1. PICK len \in Lengths : wanted' = [ver |-> updates + 1, len |-> len]
    BY <1>3 DEF CheckUpdate
  <2>2. updates' \in 0..MaxUpdates /\ updates + 1 \in 0..MaxUpdates
    BY <1>3 DEF CheckUpdate
  <2>3. wanted' \in Settings
    BY <2>1, <2>2 DEF Settings
  <2>4. caller' \in {"store", "store_pending"}
    BY <1>3 DEF CheckUpdate
  <2>5. UNCHANGED <<settings, pending, configured, running, control, reader, final, bank_len,
                    one_caller, newest, file, notes>>
    BY <1>3 DEF CheckUpdate
  <2> QED BY <2>2, <2>3, <2>4, <2>5
<1>4. CASE RefuseUpdate
  BY <1>4 DEF RefuseUpdate
<1>5. CASE StorePending
  BY <1>5 DEF StorePending, Accept
<1>6. CASE Store
  BY <1>6 DEF Store, Accept
<1>7. CASE LeaveWait
  BY <1>7 DEF LeaveWait
<1>8. CASE ReadBank
  <2>1. configured' \in Settings \union {None} /\ settings' \in Settings
        /\ pending' \in Settings \union {None} /\ dropped' \in BOOLEAN
        /\ reader' \in {"decode", "wait", "failed", "off"}
    BY <1>8, ReadBankCases
  <2>2. bank_len' \in Lengths \union {0}
    BY <1>8, ReadBankCases, LengthType
  <2>3. UNCHANGED <<running, control, final, user, file, leftover, raced, overran>>
    BY <1>8, ReadBankCases
  <2> QED BY <2>1, <2>2, <2>3
<1>9. CASE WriteBank
  BY <1>9 DEF WriteBank, Append
<1>10. CASE CycleFails
  BY <1>10 DEF CycleFails
<1>11. CASE Recover
  BY <1>11 DEF Recover, ConfigureAgain, Configure
<1> QED
  BY <1>1, <1>2, <1>3, <1>4, <1>5, <1>6, <1>7, <1>8, <1>9, <1>10, <1>11, <1>12, <1>13,
     <1>14, <1>15, <1>16
     DEF Next, Control, User, Reader

(* Every action keeps the lengths of a run at that of its file.             *)
LEMMA LengthStep == ASSUME TypeOK, JoinInv, LengthInv, Next PROVE LengthInv'
<1> USE DEF TypeOK, JoinInv, LengthInv, Starting
<1>1. CASE StartBoard
  BY <1>1 DEF StartBoard, Configure
<1>12. CASE AddBoard
  BY <1>12 DEF AddBoard, NewFile
<1>13. CASE StartReader
  BY <1>13 DEF StartReader
<1>14. CASE JoinEnds
  BY <1>14 DEF JoinEnds
<1>15. CASE WriteFails
  BY <1>15 DEF WriteFails
<1>16. CASE ReaderDies
  BY <1>16 DEF ReaderDies
<1>2. CASE Stop
  BY <1>2 DEF Stop
<1>3. CASE CheckUpdate
  BY <1>3 DEF CheckUpdate
<1>4. CASE RefuseUpdate
  BY <1>4 DEF RefuseUpdate
<1>5. CASE StorePending
  BY <1>5 DEF StorePending, Accept, Allowed
<1>6. CASE Store
  BY <1>6 DEF Store, Accept
<1>7. CASE LeaveWait
  BY <1>7 DEF LeaveWait
<1>8. CASE ReadBank
  BY <1>8, ReadBankCases
<1>9. CASE WriteBank
  BY <1>9 DEF WriteBank, Append
<1>10. CASE CycleFails
  BY <1>10 DEF CycleFails
<1>11. CASE Recover
  BY <1>11 DEF Recover, ConfigureAgain, Configure
<1> QED
  BY <1>1, <1>2, <1>3, <1>4, <1>5, <1>6, <1>7, <1>8, <1>9, <1>10, <1>11, <1>12, <1>13,
     <1>14, <1>15, <1>16
     DEF Next, Control, User, Reader

(* Every action keeps the board at the settings in force, and the newest in *)
(* waiting.                                                                 *)
LEMMA OrderStep == ASSUME TypeOK, JoinInv, OrderInv, NewestKept, Next PROVE OrderInv'
<1> USE DEF TypeOK, OrderInv, NewestKept, Starting
<1>1. CASE StartBoard
  BY <1>1 DEF StartBoard, Configure
<1>12. CASE AddBoard
  BY <1>12 DEF AddBoard, NewFile
<1>13. CASE StartReader
  BY <1>13 DEF StartReader
<1>14. CASE JoinEnds
  BY <1>14 DEF JoinEnds
<1>15. CASE WriteFails
  BY <1>15 DEF WriteFails
<1>16. CASE ReaderDies
  BY <1>16 DEF ReaderDies
<1>2. CASE Stop
  BY <1>2 DEF Stop
<1>3. CASE CheckUpdate
  BY <1>3 DEF CheckUpdate
<1>4. CASE RefuseUpdate
  BY <1>4 DEF RefuseUpdate
<1>5. CASE StorePending
  BY <1>5 DEF StorePending, Accept
<1>6. CASE Store
  BY <1>6 DEF Store, Accept
<1>7. CASE LeaveWait
  BY <1>7 DEF LeaveWait
<1>8. CASE ReadBank
  <2>1. CASE UNCHANGED <<configured, settings, pending, dropped>>
    BY <1>8, <2>1, ReadBankCases
  <2>2. CASE configured' = pending /\ settings' = pending /\ pending' = None
    BY <2>2
  <2>3. CASE dropped'
    BY <2>3
  <2> QED BY <1>8, <2>1, <2>2, <2>3, ReadBankCases, Zenon
<1>9. CASE WriteBank
  BY <1>9 DEF WriteBank, Append
<1>10. CASE CycleFails
  BY <1>10 DEF CycleFails
<1>11. CASE Recover
  BY <1>11 DEF Recover, ConfigureAgain, Configure
<1> QED
  BY <1>1, <1>2, <1>3, <1>4, <1>5, <1>6, <1>7, <1>8, <1>9, <1>10, <1>11, <1>12, <1>13,
     <1>14, <1>15, <1>16
     DEF Next, Control, User, Reader

(* Every action keeps the newest settings in force or pending.              *)
LEMMA NewestStep == ASSUME TypeOK, OrderInv, NewestKept, Next PROVE NewestKept'
<1> USE DEF TypeOK, OrderInv, NewestKept, Starting
<1>1. CASE StartBoard
  BY <1>1 DEF StartBoard, Configure
<1>12. CASE AddBoard
  BY <1>12 DEF AddBoard, NewFile
<1>13. CASE StartReader
  BY <1>13 DEF StartReader
<1>14. CASE JoinEnds
  BY <1>14 DEF JoinEnds
<1>15. CASE WriteFails
  BY <1>15 DEF WriteFails
<1>16. CASE ReaderDies
  BY <1>16 DEF ReaderDies
<1>2. CASE Stop
  BY <1>2 DEF Stop
<1>3. CASE CheckUpdate
  BY <1>3 DEF CheckUpdate
<1>4. CASE RefuseUpdate
  BY <1>4 DEF RefuseUpdate
<1>5. CASE StorePending
  BY <1>5 DEF StorePending, Accept
<1>6. CASE Store
  BY <1>6 DEF Store, Accept
<1>7. CASE LeaveWait
  BY <1>7 DEF LeaveWait
<1>8. CASE ReadBank
  BY <1>8, ReadBankCases, NoneIsNone
<1>9. CASE WriteBank
  BY <1>9 DEF WriteBank, Append
<1>10. CASE CycleFails
  BY <1>10 DEF CycleFails
<1>11. CASE Recover
  BY <1>11 DEF Recover, ConfigureAgain, Configure
<1> QED
  BY <1>1, <1>2, <1>3, <1>4, <1>5, <1>6, <1>7, <1>8, <1>9, <1>10, <1>11, <1>12, <1>13,
     <1>14, <1>15, <1>16
     DEF Next, Control, User, Reader

(* Every action keeps the file aligned: only WriteBank adds rows, and the   *)
(* bank in its hands is as long as the file's waveforms.                    *)
LEMMA AlignedStep == ASSUME TypeOK, LengthInv, RowsAligned, Next PROVE RowsAligned'
<1> USE DEF TypeOK, LengthInv, RowsAligned
<1>1. CASE AddBoard
  BY <1>1 DEF AddBoard, NewFile
<1>2. CASE WriteBank
  BY <1>2 DEF WriteBank, Append
<1>3. CASE WriteFails
  BY <1>3 DEF WriteFails
<1>4. CASE StartBoard \/ StartReader \/ Stop \/ JoinEnds
  BY <1>4 DEF StartBoard, StartReader, Stop, JoinEnds
<1>5. CASE User
  BY <1>5 DEF User, CheckUpdate, RefuseUpdate, StorePending, Store
<1>6. CASE LeaveWait \/ ReadBank \/ CycleFails \/ ReaderDies \/ Recover
  BY <1>6 DEF LeaveWait, ReadBank, CycleFails, ReaderDies, Recover
<1> QED BY <1>1, <1>2, <1>3, <1>4, <1>5, <1>6 DEF Next, Control, Reader

(* Every action keeps a reader from outliving a stop() that did not time    *)
(* out.                                                                     *)
LEMMA JoinStep == ASSUME TypeOK, JoinInv, Next PROVE JoinInv'
<1> USE DEF TypeOK, JoinInv, Starting
<1>1. CASE Control
  <2>1. CASE StartBoard \/ AddBoard
    BY <2>1 DEF StartBoard, AddBoard
  <2>2. CASE StartReader
    BY <2>2 DEF StartReader
  <2>3. CASE Stop
    BY <2>3 DEF Stop
  <2>4. CASE JoinEnds
    BY <2>4 DEF JoinEnds
  <2> QED BY <1>1, <2>1, <2>2, <2>3, <2>4 DEF Control
<1>2. CASE User
  BY <1>2 DEF User, CheckUpdate, RefuseUpdate, StorePending, Store
<1>3. CASE ReadBank
  BY <1>3, ReadBankCases
<1>4. CASE LeaveWait \/ WriteBank \/ WriteFails
  BY <1>4 DEF LeaveWait, WriteBank, WriteFails
<1>5. CASE CycleFails \/ ReaderDies \/ Recover
  BY <1>5 DEF CycleFails, ReaderDies, Recover
<1> QED BY <1>1, <1>2, <1>3, <1>4, <1>5 DEF Next, Reader

(* Every action of a single caller keeps its store from racing.             *)
LEMMA CallerStep ==
  ASSUME TypeOK, LengthInv, JoinInv, CallerInv, Next
  PROVE  CallerInv'
<1> SUFFICES ASSUME one_caller', ~leftover', ~overran' PROVE CallerInv'
  BY DEF CallerInv
<1> USE DEF TypeOK, JoinInv, CallerInv, CallerFree, Allowed, Starting
<1>1. CASE StartBoard
  BY <1>1 DEF StartBoard, Configure
<1>12. CASE AddBoard
  BY <1>12 DEF AddBoard, NewFile
<1>13. CASE StartReader
  BY <1>13 DEF StartReader
<1>14. CASE JoinEnds
  BY <1>14 DEF JoinEnds
<1>15. CASE WriteFails
  BY <1>15 DEF WriteFails
<1>16. CASE ReaderDies
  BY <1>16 DEF ReaderDies
<1>2. CASE Stop
  BY <1>2 DEF Stop
<1>3. CASE CheckUpdate
  BY <1>3 DEF CheckUpdate
<1>4. CASE RefuseUpdate
  BY <1>4 DEF RefuseUpdate
<1>5. CASE StorePending
  BY <1>5 DEF StorePending, Accept
<1>6. CASE Store
  BY <1>6 DEF Store, Accept
<1>7. CASE LeaveWait
  BY <1>7 DEF LeaveWait
<1>8. CASE ReadBank
  BY <1>8, ReadBankCases DEF LengthInv
<1>9. CASE WriteBank
  BY <1>9 DEF WriteBank
<1>10. CASE CycleFails
  BY <1>10 DEF CycleFails
<1>11. CASE Recover
  BY <1>11 DEF Recover
<1> QED
  BY <1>1, <1>2, <1>3, <1>4, <1>5, <1>6, <1>7, <1>8, <1>9, <1>10, <1>11, <1>12, <1>13,
     <1>14, <1>15, <1>16
     DEF Next, Control, User, Reader

(* The invariant holds before the first start().                            *)
LEMMA InitInv == Init => IInv
<1> SUFFICES ASSUME Init PROVE IInv
  OBVIOUS
<1> USE RunSettingsAssumption DEF Init
<1>1. /\ running \in BOOLEAN /\ final \in BOOLEAN
      /\ leftover \in BOOLEAN /\ raced \in BOOLEAN /\ dropped \in BOOLEAN
      /\ torn \in BOOLEAN /\ overran \in BOOLEAN
  BY Zenon
<1>2. settings \in Settings
  BY DEF Settings
<1>3. TypeOK
  BY <1>1, <1>2 DEF TypeOK
<1>4. LengthInv /\ OrderInv /\ RowsAligned /\ NewestKept
  BY DEF LengthInv, OrderInv, RowsAligned, NewestKept, Starting
<1>5. JoinInv /\ CallerInv
  BY DEF JoinInv, CallerInv, Starting
<1> QED BY <1>3, <1>4, <1>5 DEF IInv

(* The invariant is inductive.                                              *)
LEMMA StepInv == IInv /\ [Next]_vars => IInv'
<1> SUFFICES ASSUME IInv, [Next]_vars PROVE IInv'
  OBVIOUS
<1>1. CASE Next
  BY <1>1, TypeStep, LengthStep, OrderStep, NewestStep, AlignedStep, JoinStep, CallerStep
     DEF IInv
<1>2. CASE UNCHANGED vars
  BY <1>2 DEF vars, IInv, TypeOK, LengthInv, OrderInv, JoinInv, CallerInv, Allowed, RowsAligned,
     NewestKept, Starting
<1> QED BY <1>1, <1>2

(* The inductive invariant holds in every reachable state.                  *)
THEOREM Invariance == Spec => []IInv
<1> QED BY InitInv, StepInv, PTL DEF Spec

(* Settings, counts and threads keep their domains.                         *)
THEOREM TypeCorrect == Spec => []TypeOK
<1>1. IInv => TypeOK BY DEF IInv
<1> QED BY <1>1, Invariance, PTL

(* A run file's waveform rows stay aligned with its event rows, unless an   *)
(* update met a start() or stop() half-way or outlived its run, or an       *)
(* append failed half-way.                                                  *)
THEOREM FileAligned == Spec => []RowsAligned
<1>1. IInv => RowsAligned BY DEF IInv
<1> QED BY <1>1, Invariance, PTL

(* Under the same conditions, and if no error cost settings, a bank is      *)
(* decoded with the settings the board recorded it with.                    *)
THEOREM DecodedAsRecorded == Spec => []DecodesAsConfigured
<1>1. IInv => DecodesAsConfigured
  BY DEF IInv, OrderInv, LengthInv, DecodesAsConfigured
<1> QED BY <1>1, Invariance, PTL

(* Under the same conditions an accepted update is in force or pending      *)
(* until a newer one is.                                                    *)
THEOREM UpdateNotLost == Spec => []NewestKept
<1>1. IInv => NewestKept BY DEF IInv
<1> QED BY <1>1, Invariance, PTL

(* If one thread makes all calls of start, stop and update_settings, and    *)
(* no join of stop() timed out, no update races; the file is then aligned   *)
(* unless a run left settings pending or an append failed half-way.         *)
THEOREM OneCallerAligned ==
  Spec => [](one_caller /\ ~leftover /\ ~overran => ~raced /\ (~torn => waves = rows))
<1>1. IInv => (one_caller /\ ~leftover /\ ~overran => ~raced /\ (~torn => waves = rows))
  BY DEF IInv, CallerInv, RowsAligned
<1> QED BY <1>1, Invariance, PTL
=============================================================================
