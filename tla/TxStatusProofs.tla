--------------------------- MODULE TxStatusProofs ---------------------------
(***************************************************************************)
(* Proofs about TxStatus for chains of every length, any number of blocks  *)
(* and reorganisations, and every expiry height.                           *)
(***************************************************************************)
EXTENDS TxStatus, SequenceTheorems, TLAPS

-----------------------------------------------------------------------------
(* What the operators on a row of table transactions do.                   *)

(* The fields of a row.                                                    *)
LEMMA RowFields ==
    ASSUME NEW row \in TxRow
    PROVE  /\ row.known = TRUE
           /\ row.mined \in {NoHeight} \cup Heights
           /\ row.confirmed \in HeightOrNone
           /\ row.observed \in 0 .. MaxHeight + 1
           /\ row.target \in HeightOrNone
           /\ row.expiry \in {NoHeight, Expiry}
           /\ row.noted \in BOOLEAN
BY Zenon DEF TxRow

LEMMA KnownRow ==
    ASSUME NEW row \in TxRow \cup {NoTx}, row.known
    PROVE  row \in TxRow
BY DEF NoTx

(* Recording an inclusion at h keeps everything but the mined height and   *)
(* lowers the first observation.                                           *)
LEMMA MinedAtRow ==
    ASSUME NEW row \in TxRow, NEW h \in Heights
    PROVE  /\ MinedAt(row, h) \in TxRow
           /\ MinedAt(row, h).mined = h
           /\ MinedAt(row, h).observed <= row.observed
           /\ MinedAt(row, h).target = row.target
           /\ MinedAt(row, h).noted = row.noted
<1>1. row.observed \in 0 .. MaxHeight + 1 /\ MaxHeight \in Nat
    BY RowFields, StatusAssumption, Zenon
<1>2. Lower(row.observed, h) \in 0 .. MaxHeight + 1
      /\ Lower(row.observed, h) <= row.observed
    BY <1>1 DEF Lower, Heights
<1> HIDE DEF Lower
<1>. QED BY <1>1, <1>2, Zenon DEF MinedAt, TxRow, HeightOrNone

LEMMA RecordMinedRow ==
    ASSUME NEW row \in TxRow, NEW h \in Heights
    PROVE  /\ RecordMined(row, h) \in TxRow
           /\ RecordMined(row, h).mined = h
           /\ RecordMined(row, h).observed <= row.observed
           /\ RecordMined(row, h).target = row.target
           /\ RecordMined(row, h).noted = row.noted
<1> DEFINE old == IF row.mined = NoHeight THEN h ELSE row.mined
           mid == [row EXCEPT !.observed = Lower(@, old)]
<1>1. /\ row.observed \in 0 .. MaxHeight + 1 /\ MaxHeight \in Nat
      /\ row.mined \in {NoHeight} \cup Heights
    BY RowFields, StatusAssumption, Zenon
<1>2. old \in Heights
    BY <1>1
<1>3. Lower(row.observed, old) \in 0 .. MaxHeight + 1
      /\ Lower(row.observed, old) <= row.observed
    BY <1>1, <1>2 DEF Lower, Heights
<1> HIDE DEF old, Lower
<1>4. /\ mid \in TxRow
      /\ mid.observed <= row.observed
      /\ mid.target = row.target
      /\ mid.noted = row.noted
    BY <1>1, <1>3, Zenon DEF TxRow
<1>5. RecordMined(row, h) = MinedAt(mid, h)
    BY DEF RecordMined, old
<1> HIDE DEF mid
<1>6. /\ MinedAt(mid, h) \in TxRow
      /\ MinedAt(mid, h).mined = h
      /\ MinedAt(mid, h).observed <= mid.observed
      /\ MinedAt(mid, h).target = mid.target
      /\ MinedAt(mid, h).noted = mid.noted
    BY <1>4, MinedAtRow
<1>7. /\ mid.observed \in 0 .. MaxHeight + 1
      /\ MinedAt(mid, h).observed \in 0 .. MaxHeight + 1
    BY <1>4, <1>6, RowFields, Zenon
<1>. QED BY <1>1, <1>4, <1>5, <1>6, <1>7

(* A row that discovery inserts.                                           *)
LEMMA NewRowFields ==
    ASSUME NEW o \in 0 .. MaxHeight + 1
    PROVE  /\ NewRow(o) \in TxRow
           /\ NewRow(o).mined = NoHeight
           /\ NewRow(o).observed = o
           /\ NewRow(o).target = NoHeight
           /\ NewRow(o).noted = FALSE
BY DEF NewRow, TxRow, HeightOrNone

(* The row that an upsert works on: the stored one or a new one without    *)
(* creation evidence.                                                      *)
LEMMA UpsertedRow ==
    ASSUME NEW o \in 0 .. MaxHeight + 1, tx \in TxRow \cup {NoTx}
    PROVE  /\ Row(o) \in TxRow
           /\ tx.known => Row(o) = tx
           /\ ~tx.known => Row(o).target = NoHeight /\ Row(o).mined = NoHeight
                           /\ Row(o).noted = FALSE
<1>1. CASE tx = NoTx
    BY <1>1, NewRowFields, Zenon DEF Row, NoTx
<1>2. CASE tx \in TxRow
    BY <1>2, RowFields, Zenon DEF Row
<1>. QED BY <1>1, <1>2, Zenon

LEMMA WithPayloadRow ==
    ASSUME NEW row \in TxRow, NEW o \in 0 .. MaxHeight + 1
    PROVE  /\ WithPayload(row, o) \in TxRow
           /\ WithPayload(row, o).mined = row.mined
           /\ WithPayload(row, o).observed <= row.observed
           /\ WithPayload(row, o).target = row.target
           /\ WithPayload(row, o).noted = row.noted
<1>1. row.observed \in 0 .. MaxHeight + 1 /\ MaxHeight \in Nat
    BY RowFields, StatusAssumption, Zenon
<1>2. Lower(row.observed, o) \in 0 .. MaxHeight + 1
      /\ Lower(row.observed, o) <= row.observed
    BY <1>1 DEF Lower
<1> HIDE DEF Lower
<1>. QED BY <1>1, <1>2, Zenon DEF WithPayload, TxRow

LEMMA UnminedRowFields ==
    ASSUME NEW h \in 0 .. MaxHeight, tx \in TxRow \cup {NoTx}
    PROVE  /\ UnminedRow(h) \in TxRow \cup {NoTx}
           /\ UnminedRow(h).known = tx.known
           /\ tx.known => /\ UnminedRow(h).observed = tx.observed
                          /\ UnminedRow(h).target = tx.target
                          /\ UnminedRow(h).noted = tx.noted
                          /\ UnminedRow(h).mined =
                                IF tx.mined > h THEN NoHeight ELSE tx.mined
<1>1. CASE tx = NoTx
    BY <1>1 DEF UnminedRow, NoTx
<1>2. CASE tx \in TxRow /\ tx.mined > h
  <2>1. UnminedRow(h) = [tx EXCEPT !.mined = NoHeight, !.confirmed = NoHeight]
    BY <1>2, RowFields, Zenon DEF UnminedRow
  <2>. QED BY <1>2, <2>1, Zenon DEF TxRow, HeightOrNone
<1>3. CASE tx \in TxRow /\ ~(tx.mined > h)
    BY <1>3 DEF UnminedRow
<1>. QED BY <1>1, <1>2, <1>3

LEMMA LoweredRowFields ==
    ASSUME NEW floor \in 0 .. MaxHeight, NEW row \in TxRow \cup {NoTx}
    PROVE  /\ LowerCreationEvidence(row, floor) \in TxRow \cup {NoTx}
           /\ LowerCreationEvidence(row, floor).known = row.known
           /\ row.known =>
                /\ LowerCreationEvidence(row, floor).mined = row.mined
                /\ LowerCreationEvidence(row, floor).target = row.target
                /\ LowerCreationEvidence(row, floor).noted = row.noted
                /\ LowerCreationEvidence(row, floor).observed <= row.observed
                /\ row.target # NoHeight =>
                        LowerCreationEvidence(row, floor).observed <= floor
<1>1. MaxHeight \in Nat
    BY StatusAssumption
<1>2. CASE row = NoTx
  <2>1. row.known = FALSE
    BY <1>2 DEF NoTx
  <2>2. LowerCreationEvidence(row, floor) = row
    BY <2>1 DEF LowerCreationEvidence
  <2>. QED BY <1>2, <2>1, <2>2
<1>3. CASE row \in TxRow /\ row.target # NoHeight /\ row.observed > floor
  <2>1. row.known = TRUE
    BY <1>3, RowFields, Zenon
  <2>2. LowerCreationEvidence(row, floor) = [row EXCEPT !.observed = floor]
    BY <1>3, <2>1 DEF LowerCreationEvidence
  <2>3. row.observed \in 0 .. MaxHeight + 1
    BY <1>3, RowFields, Zenon
  <2> floor \in 0 .. MaxHeight + 1 /\ row.observed \in Int
    BY <1>1, <2>3
  <2>4. /\ [row EXCEPT !.observed = floor] \in TxRow
        /\ [row EXCEPT !.observed = floor].observed = floor
        /\ [row EXCEPT !.observed = floor].known = TRUE
        /\ [row EXCEPT !.observed = floor].mined = row.mined
        /\ [row EXCEPT !.observed = floor].target = row.target
        /\ [row EXCEPT !.observed = floor].noted = row.noted
    BY <1>3, <2>3, Zenon DEF TxRow
  <2>. QED BY <1>3, <2>1, <2>2, <2>3, <2>4
<1>4. CASE row \in TxRow /\ ~(row.target # NoHeight /\ row.observed > floor)
  <2>1. row.observed \in 0 .. MaxHeight + 1
    BY <1>4, RowFields, Zenon
  <2> row.observed \in Int
    BY <1>1, <2>1
  <2>2. LowerCreationEvidence(row, floor) = row
    BY <1>4 DEF LowerCreationEvidence
  <2>. QED BY <1>4, <2>1, <2>2
<1>. QED BY <1>2, <1>3, <1>4

-----------------------------------------------------------------------------
(* Receipts.                                                               *)

LEMMA ReceiptFields ==
    ASSUME NEW r \in Receipt
    PROVE  /\ r.held = TRUE
           /\ r.height \in Heights
           /\ r.block \in BlockNames
           /\ r.replaced \in BOOLEAN
BY Zenon DEF Receipt

(* A rewind captures a receipt of the block stored at the mined height, or *)
(* keeps the one it has.                                                   *)
LEMMA CapturedReceiptFields ==
    ASSUME TypeOK, NEW h \in 0 .. MaxHeight
    PROVE  /\ CapturedReceipt(h) \in Receipt \cup {NoReceipt}
           /\ CapturedReceipt(h).held =>
                \/ CapturedReceipt(h) = receipt
                \/ /\ Unobservable /\ tx.mined > h
                   /\ tx.mined \in Heights
                   /\ CapturedReceipt(h).height = tx.mined
                   /\ CapturedReceipt(h).block = blocks[tx.mined]
                   /\ blocks[tx.mined] # NoBlock
<1>1. receipt \in Receipt \cup {NoReceipt}
    BY DEF TypeOK
<1>2. CASE ~(Unobservable /\ tx.mined > h)
    BY <1>1, <1>2 DEF CapturedReceipt
<1>3. CASE Unobservable /\ tx.mined > h
  <2>0. tx \in TxRow
    BY <1>3 DEF TypeOK, Unobservable, NoTx
  <2> tx.mined \in {NoHeight} \cup Heights
    BY <2>0, RowFields, Zenon
  <2>1. tx.mined \in Heights
    BY <1>3, StatusAssumption DEF NoHeight
  <2>2. blocks[tx.mined] \in BlockNames \cup {NoBlock}
    BY <2>1 DEF TypeOK
  <2>3. CASE blocks[tx.mined] = NoBlock
    BY <1>3, <2>3 DEF CapturedReceipt, NoReceipt
  <2>4. CASE blocks[tx.mined] # NoBlock
    <3>1. CapturedReceipt(h) = ReceiptOf(tx.mined)
      BY <1>3, <2>4 DEF CapturedReceipt
    <3>2. ReceiptOf(tx.mined) \in Receipt
      BY <2>1, <2>2, <2>4 DEF ReceiptOf, Receipt
    <3>3. /\ ReceiptOf(tx.mined).height = tx.mined
          /\ ReceiptOf(tx.mined).block = blocks[tx.mined]
      BY DEF ReceiptOf
    <3>. QED BY <1>3, <2>1, <2>4, <3>1, <3>2, <3>3
  <2>. QED BY <2>3, <2>4
<1>. QED BY <1>2, <1>3

LEMMA ResetValidationFields ==
    ASSUME NEW r \in Receipt \cup {NoReceipt}, NEW floor \in 0 .. MaxHeight
    PROVE  /\ ResetValidation(r, floor) \in Receipt \cup {NoReceipt}
           /\ ResetValidation(r, floor).held = r.held
           /\ r.held => /\ ResetValidation(r, floor).height = r.height
                        /\ ResetValidation(r, floor).block = r.block
                        /\ r.height > floor \/ ResetValidation(r, floor) = r
<1>1. CASE r = NoReceipt
    BY <1>1 DEF ResetValidation, NoReceipt
<1>2. CASE r \in Receipt /\ r.height > floor
    BY <1>2, Zenon DEF ResetValidation, Receipt
<1>3. CASE r \in Receipt /\ ~(r.height > floor)
    BY <1>3, Zenon DEF ResetValidation, Receipt
<1>. QED BY <1>1, <1>2, <1>3

-----------------------------------------------------------------------------
(* What the steps of the chain do.                                         *)

LEMMA ChainGrows ==
    ASSUME TypeOK, NEW include \in BOOLEAN, MineBlock(include)
    PROVE  /\ chain' \in Seq(BlockNames)
           /\ Len(chain') = Len(chain) + 1 /\ Len(chain') <= MaxHeight
           /\ \A h \in 1 .. Len(chain) : chain'[h] = chain[h]
           /\ chain'[Len(chain) + 1] = minted + 1
           /\ minted' \in 0 .. MaxBlocks /\ minted' = minted + 1
           /\ minted + 1 \in BlockNames
           /\ including \subseteq including'
           /\ including' \subseteq including \cup {minted + 1}
<1>1. /\ chain \in Seq(BlockNames) /\ Len(chain) \in Nat
      /\ minted \in 0 .. MaxBlocks
      /\ including \subseteq BlockNames /\ MaxBlocks \in Nat /\ MaxHeight \in Nat
    BY StatusAssumption DEF TypeOK
<1>2. /\ minted < MaxBlocks /\ Len(chain) < MaxHeight
      /\ chain' = Append(chain, minted + 1) /\ minted' = minted + 1
      /\ including' = IF include THEN including \cup {minted + 1} ELSE including
    BY DEF MineBlock
<1>3. minted + 1 \in BlockNames
    BY <1>1, <1>2 DEF BlockNames
<1>4. /\ chain' \in Seq(BlockNames) /\ Len(chain') = Len(chain) + 1
      /\ \A h \in 1 .. Len(chain) : chain'[h] = chain[h]
      /\ chain'[Len(chain) + 1] = minted + 1
    BY <1>1, <1>2, <1>3, AppendProperties
<1>. QED BY <1>1, <1>2, <1>3, <1>4

LEMMA ChainReplaced ==
    ASSUME TypeOK, NEW f \in 0 .. MaxHeight,
           NEW at \in {NoHeight} \cup Heights, Reorg(f, at)
    PROVE  /\ chain' \in Seq(BlockNames)
           /\ Len(chain') = Len(chain)
           /\ f < Len(chain)
           /\ \A h \in 1 .. Len(chain) :
                chain'[h] = IF h <= f THEN chain[h] ELSE minted + h - f
           /\ minted' \in 0 .. MaxBlocks
           /\ minted' = minted + Len(chain) - f
           /\ including \subseteq including'
           /\ \A b \in including' \ including :
                /\ at # NoHeight /\ b = minted + at - f
                /\ f < at /\ at <= Len(chain) /\ b \in BlockNames
           /\ fork' \in 0 .. MaxHeight /\ fork' <= f
           /\ fork # NoHeight => fork' <= fork
<1>1. /\ chain \in Seq(BlockNames) /\ Len(chain) \in Nat /\ Len(chain) <= MaxHeight
      /\ minted \in 0 .. MaxBlocks
      /\ including \subseteq BlockNames /\ MaxBlocks \in Nat /\ MaxHeight \in Nat
      /\ fork \in {NoHeight} \cup 0 .. MaxHeight
    BY StatusAssumption DEF TypeOK
<1>2. /\ f < Len(chain) /\ minted + Len(chain) - f <= MaxBlocks
      /\ at # NoHeight => f < at /\ at <= Len(chain)
      /\ chain' = [h \in 1 .. Len(chain) |->
                    IF h <= f THEN chain[h] ELSE minted + h - f]
      /\ minted' = minted + Len(chain) - f
      /\ including' = IF at = NoHeight THEN including
                      ELSE including \cup {minted + at - f}
      /\ fork' = IF fork = NoHeight THEN f ELSE Lower(fork, f)
    BY DEF Reorg
<1>3. ASSUME NEW h \in 1 .. Len(chain)
      PROVE  (IF h <= f THEN chain[h] ELSE minted + h - f) \in BlockNames
  <2>1. chain[h] \in BlockNames
    BY <1>1
  <2>2. h > f => minted + h - f \in BlockNames
    BY <1>1, <1>2 DEF BlockNames
  <2>. QED BY <2>1, <2>2, <1>1
<1>4. chain' \in [1 .. Len(chain) -> BlockNames]
    BY <1>2, <1>3
<1>5. chain' \in Seq(BlockNames) /\ Len(chain') = Len(chain)
  <2>1. chain' \in Seq(BlockNames)
    BY <1>1, <1>4, SeqDef
  <2>2. DOMAIN chain' = 1 .. Len(chain)
    BY <1>4
  <2>. QED BY <1>1, <2>1, <2>2, LenProperties
<1>6. at # NoHeight => minted + at - f \in BlockNames
    BY <1>1, <1>2 DEF Heights, NoHeight, BlockNames
<1>7. /\ fork' \in 0 .. MaxHeight /\ fork' <= f
      /\ fork # NoHeight => fork' <= fork
    BY <1>1, <1>2 DEF Lower
<1>8. minted' \in 0 .. MaxBlocks
    BY <1>1, <1>2
<1>9. \A b \in including' \ including :
        /\ at # NoHeight /\ b = minted + at - f
        /\ f < at /\ at <= Len(chain) /\ b \in BlockNames
    BY <1>2, <1>6
<1>10. including \subseteq including'
    BY <1>2
<1>. QED BY <1>2, <1>5, <1>7, <1>8, <1>9, <1>10


-----------------------------------------------------------------------------
(* What a truncation or a rewind does, in the terms of the proofs below:   *)
(* everything above the floor may be forgotten, nothing is made up.        *)
WentBack(floor) ==
    /\ tx' \in TxRow \cup {NoTx} /\ tx'.known = tx.known
    /\ tx.known => /\ tx'.target = tx.target /\ tx'.noted = tx.noted
                   /\ tx'.observed <= tx.observed
                   /\ tx.target # NoHeight => tx'.observed <= floor
                   /\ tx'.mined \in {tx.mined, NoHeight}
    /\ status' \in {status, "reconfirm"}
    /\ Unobservable /\ tx'.mined # tx.mined => status' = "reconfirm"
    /\ receipt' \in Receipt \cup {NoReceipt}
    /\ receipt'.held =>
        \/ /\ receipt.held
           /\ receipt'.height = receipt.height /\ receipt'.block = receipt.block
           /\ receipt.height > floor \/ receipt' = receipt
        \/ /\ tx.known /\ tx.mined \in Heights /\ tx.mined > floor
           /\ receipt'.height = tx.mined /\ receipt'.block = blocks[tx.mined]
           /\ blocks[tx.mined] # NoBlock
           /\ status' = "reconfirm"
    /\ blocks' \in [Heights -> BlockNames \cup {NoBlock}]
    /\ \A g \in Heights : blocks'[g] \in {blocks[g], NoBlock}
    /\ tx.known /\ tx'.mined # NoHeight => blocks'[tx.mined] = blocks[tx.mined]

LEMMA TruncationGoesBack ==
    ASSUME TypeOK, NEW h \in 0 .. MaxHeight, NEW floor \in 0 .. MaxHeight,
           floor <= h, TruncateToHeightInternal(h, floor)
    PROVE  WentBack(floor)
<1>1. /\ tx \in TxRow \cup {NoTx} /\ receipt \in Receipt \cup {NoReceipt}
      /\ blocks \in [Heights -> BlockNames \cup {NoBlock}]
      /\ MaxHeight \in Nat
    BY StatusAssumption DEF TypeOK
<1>2. /\ status' = RequeuedStatus(h)
      /\ receipt' = ResetValidation(CapturedReceipt(h), floor)
      /\ tx' = LowerCreationEvidence(UnminedRow(h), floor)
      /\ blocks' = [g \in Heights |-> IF g <= h THEN blocks[g] ELSE NoBlock]
    BY DEF TruncateToHeightInternal
<1> DEFINE un == UnminedRow(h)
           cap == CapturedReceipt(h)
<1>3. /\ un \in TxRow \cup {NoTx}
      /\ un.known = tx.known
      /\ tx.known => /\ un.observed = tx.observed /\ un.target = tx.target
                     /\ un.noted = tx.noted
                     /\ un.mined = IF tx.mined > h THEN NoHeight ELSE tx.mined
    BY <1>1, UnminedRowFields
<1>4. /\ cap \in Receipt \cup {NoReceipt}
      /\ cap.held =>
            \/ cap = receipt
            \/ /\ Unobservable /\ tx.mined > h /\ tx.mined \in Heights
               /\ cap.height = tx.mined /\ cap.block = blocks[tx.mined]
               /\ blocks[tx.mined] # NoBlock
    BY CapturedReceiptFields
<1> HIDE DEF un, cap
<1>5. /\ tx' \in TxRow \cup {NoTx} /\ tx'.known = un.known
      /\ un.known => /\ tx'.mined = un.mined /\ tx'.target = un.target
                     /\ tx'.noted = un.noted /\ tx'.observed <= un.observed
                     /\ un.target # NoHeight => tx'.observed <= floor
    BY <1>2, <1>3, LoweredRowFields DEF un
<1>6. /\ receipt' \in Receipt \cup {NoReceipt}
      /\ receipt'.held = cap.held
      /\ cap.held => /\ receipt'.height = cap.height /\ receipt'.block = cap.block
                     /\ cap.height > floor \/ receipt' = cap
    BY <1>2, <1>4, ResetValidationFields DEF cap
<1>7. /\ status' \in {status, "reconfirm"}
      /\ Unobservable /\ tx.mined > h => status' = "reconfirm"
    BY <1>2 DEF RequeuedStatus
<1>8. tx.known => tx.mined \in {NoHeight} \cup Heights
    BY <1>1, KnownRow, RowFields, Zenon
<1>9. Unobservable /\ tx'.mined # tx.mined => status' = "reconfirm"
    BY <1>3, <1>5, <1>7 DEF Unobservable
<1>10. receipt'.held =>
        \/ /\ receipt.held
           /\ receipt'.height = receipt.height /\ receipt'.block = receipt.block
           /\ receipt.height > floor \/ receipt' = receipt
        \/ /\ tx.known /\ tx.mined \in Heights /\ tx.mined > floor
           /\ receipt'.height = tx.mined /\ receipt'.block = blocks[tx.mined]
           /\ blocks[tx.mined] # NoBlock
           /\ status' = "reconfirm"
  <2>1. ASSUME receipt'.held, cap = receipt
        PROVE  /\ receipt.held
               /\ receipt'.height = receipt.height /\ receipt'.block = receipt.block
               /\ receipt.height > floor \/ receipt' = receipt
    BY <1>6, <2>1, Zenon
  <2>2. ASSUME receipt'.held, cap # receipt
        PROVE  /\ tx.known /\ tx.mined \in Heights /\ tx.mined > floor
               /\ receipt'.height = tx.mined /\ receipt'.block = blocks[tx.mined]
               /\ blocks[tx.mined] # NoBlock
               /\ status' = "reconfirm"
    <3>1. /\ Unobservable /\ tx.mined > h /\ tx.mined \in Heights
          /\ receipt'.height = tx.mined /\ receipt'.block = blocks[tx.mined]
          /\ blocks[tx.mined] # NoBlock
      BY <1>4, <1>6, <2>2
    <3>2. tx.mined > floor
      BY <1>1, <3>1 DEF Heights
    <3>. QED BY <1>7, <3>1, <3>2 DEF Unobservable
  <2>. QED BY <2>1, <2>2
<1>11. /\ blocks' \in [Heights -> BlockNames \cup {NoBlock}]
       /\ \A g \in Heights : blocks'[g] \in {blocks[g], NoBlock}
       /\ \A g \in Heights : g <= h => blocks'[g] = blocks[g]
    BY <1>1, <1>2
<1>12. tx.known /\ tx'.mined # NoHeight => blocks'[tx.mined] = blocks[tx.mined]
  <2>1. SUFFICES ASSUME tx.known, tx'.mined # NoHeight
                 PROVE  blocks'[tx.mined] = blocks[tx.mined]
    OBVIOUS
  <2>2. tx.mined \in Heights /\ ~(tx.mined > h)
    BY <1>3, <1>5, <1>8, <2>1
  <2>3. tx.mined <= h
    BY <1>1, <2>2 DEF Heights
  <2>. QED BY <1>11, <2>2, <2>3
<1>13. tx.known => tx'.mined \in {tx.mined, NoHeight}
    BY <1>3, <1>5
<1>14. tx'.known = tx.known
    BY <1>3, <1>5
<1>15. tx.known => /\ tx'.target = tx.target /\ tx'.noted = tx.noted
                   /\ tx'.observed <= tx.observed
                   /\ tx.target # NoHeight => tx'.observed <= floor
    BY <1>3, <1>5
<1>. QED BY <1>5, <1>6, <1>7, <1>9, <1>10, <1>11, <1>12, <1>13, <1>14, <1>15
         DEF WentBack

LEMMA RewindGoesBack ==
    ASSUME TypeOK, NEW target \in 0 .. MaxHeight, NEW trunc \in 0 .. MaxHeight,
           RewindWallet(target, trunc)
    PROVE  WentBack(target)
<1>1. /\ tx \in TxRow \cup {NoTx} /\ receipt \in Receipt \cup {NoReceipt}
      /\ blocks \in [Heights -> BlockNames \cup {NoBlock}]
      /\ MaxHeight \in Nat /\ PRUNING_DEPTH \in Nat
    BY StatusAssumption DEF TypeOK
<1>2. CASE target <= trunc /\ TruncateToHeightInternal(trunc, target)
    BY <1>2, TruncationGoesBack
<1>3. CASE /\ tx' = LowerCreationEvidence(tx, target)
           /\ receipt' = ResetValidation(receipt, target)
           /\ UNCHANGED << blocks, status >>
  <2>1. /\ tx' \in TxRow \cup {NoTx} /\ tx'.known = tx.known
        /\ tx.known => /\ tx'.mined = tx.mined /\ tx'.target = tx.target
                       /\ tx'.noted = tx.noted /\ tx'.observed <= tx.observed
                       /\ tx.target # NoHeight => tx'.observed <= target
    BY <1>1, <1>3, LoweredRowFields
  <2>2. /\ receipt' \in Receipt \cup {NoReceipt}
        /\ receipt'.held = receipt.held
        /\ receipt.held =>
             /\ receipt'.height = receipt.height /\ receipt'.block = receipt.block
             /\ receipt.height > target \/ receipt' = receipt
    BY <1>1, <1>3, ResetValidationFields
  <2>. QED BY <1>1, <1>3, <2>1, <2>2 DEF WentBack, Unobservable
<1>. QED BY <1>2, <1>3 DEF RewindWallet


-----------------------------------------------------------------------------
(* What a scan does to the row, the receipt and the obligation.            *)

KeepsEvidence ==
    /\ tx' \in TxRow \cup {NoTx}
    /\ tx.known => tx'.known
    /\ tx'.known => IF tx.known
                    THEN tx'.target = tx.target /\ tx'.observed <= tx.observed
                    ELSE tx'.target = NoHeight

LEMMA ScannedRowFields ==
    ASSUME TypeOK, NEW s \in Heights, NEW e \in Heights
    PROVE  \/ ScannedRow(s, e) = tx
           \/ /\ ScannedRow(s, e) \in TxRow
              /\ ScannedRow(s, e).mined \in s .. e
              /\ Included(ScannedRow(s, e).mined)
              /\ ScannedRow(s, e).noted = TRUE
              /\ IF tx.known
                 THEN /\ ScannedRow(s, e).target = tx.target
                      /\ ScannedRow(s, e).observed <= tx.observed
                 ELSE ScannedRow(s, e).target = NoHeight
<1>1. /\ tx \in TxRow \cup {NoTx} /\ MaxHeight \in Nat
    BY StatusAssumption DEF TypeOK
<1>2. CASE viewable /\ \E h \in s .. e : Included(h)
  <2> DEFINE h == CHOOSE h \in s .. e : Included(h)
  <2>1. h \in s .. e /\ Included(h)
    BY <1>2
  <2> HIDE DEF h
  <2>2. h \in Heights /\ h \in 0 .. MaxHeight + 1
    BY <1>1, <2>1 DEF Heights
  <2> DEFINE row == MinedAt(Row(h), h)
             new == [row EXCEPT !.noted = TRUE]
  <2>3. ScannedRow(s, e) = new
    BY <1>2 DEF ScannedRow, h
  <2>4. /\ Row(h) \in TxRow
        /\ tx.known => Row(h) = tx
        /\ ~tx.known => Row(h).target = NoHeight
    BY <1>1, <2>2, UpsertedRow, Zenon
  <2>5. /\ row \in TxRow
        /\ row.mined = h
        /\ row.observed <= Row(h).observed
        /\ row.target = Row(h).target
    BY <2>2, <2>4, MinedAtRow
  <2> HIDE DEF row
  <2>6. /\ new \in TxRow
        /\ new.mined = row.mined /\ new.observed = row.observed
        /\ new.target = row.target /\ new.noted = TRUE
    BY <2>5, Zenon DEF TxRow
  <2> HIDE DEF new
  <2>. QED BY <2>1, <2>3, <2>4, <2>5, <2>6
<1>3. CASE ~(viewable /\ \E h \in s .. e : Included(h))
    BY <1>3 DEF ScannedRow
<1>. QED BY <1>2, <1>3, Zenon

Scanned(s, e) ==
    /\ KeepsEvidence
    /\ Owed' => Owed
    /\ status' = "none" => status = "none"
    /\ status' \in {"none", "queued", "reconfirm"}
    /\ tx'.known /\ tx'.mined # NoHeight =>
        \/ tx.known /\ tx'.mined = tx.mined
        \/ tx'.mined \in s .. e /\ Included(tx'.mined)
        \/ /\ receipt.held /\ receipt.height \in s .. e
           /\ tx'.mined = receipt.height
           /\ receipt.block = chain[receipt.height]
    /\ receipt' \in Receipt \cup {NoReceipt}
    /\ receipt'.held =>
        /\ receipt.held /\ status' = status
        /\ receipt'.height = receipt.height /\ receipt'.block = receipt.block
        /\ IF receipt.height \in s .. e THEN receipt'.replaced ELSE receipt' = receipt
    /\ blocks' \in [Heights -> BlockNames \cup {NoBlock}]

LEMMA PutBlocksScans ==
    ASSUME TypeOK, receipt.held => tx.known,
           NEW s \in Heights, NEW e \in Heights, PutBlocks(s, e)
    PROVE  Scanned(s, e)
<1> DEFINE row == ScannedRow(s, e)
           due == receipt.held /\ receipt.height \in s .. e
<1>1. /\ tx \in TxRow \cup {NoTx} /\ receipt \in Receipt \cup {NoReceipt}
      /\ blocks \in [Heights -> BlockNames \cup {NoBlock}]
      /\ chain \in Seq(BlockNames) /\ Len(chain) \in Nat
      /\ MaxHeight \in Nat
      /\ status \in {"none", "queued", "reconfirm"}
    BY StatusAssumption DEF TypeOK
<1>2. \/ row = tx
      \/ /\ row \in TxRow /\ row.mined \in s .. e /\ Included(row.mined)
         /\ row.noted = TRUE
         /\ IF tx.known THEN row.target = tx.target /\ row.observed <= tx.observed
            ELSE row.target = NoHeight
    BY ScannedRowFields, Zenon
<1> HIDE DEF row
<1>3. /\ s <= e /\ e <= Len(chain)
      /\ blocks' = [h \in Heights |-> IF h \in s .. e THEN chain[h] ELSE blocks[h]]
    BY DEF PutBlocks
<1>4. \A h \in s .. e : chain[h] \in BlockNames
    BY <1>1, <1>3 DEF Heights
<1>5. blocks' \in [Heights -> BlockNames \cup {NoBlock}]
    BY <1>1, <1>3, <1>4
<1>6. tx.known => tx.observed \in Int /\ tx.mined \in {NoHeight} \cup Heights
  <2>1. tx.known => tx.observed \in 0 .. MaxHeight + 1
                    /\ tx.mined \in {NoHeight} \cup Heights
    BY <1>1, KnownRow, RowFields, Zenon
  <2>. QED BY <1>1, <2>1
<1>7. /\ row \in TxRow \cup {NoTx}
      /\ tx.known => row.known
      /\ row.known => IF tx.known
                      THEN row.target = tx.target /\ row.observed <= tx.observed
                      ELSE row.target = NoHeight
      /\ row.known /\ row.mined # NoHeight =>
            \/ tx.known /\ row.mined = tx.mined
            \/ row.mined \in s .. e /\ Included(row.mined)
      /\ row.known /\ ~row.noted /\ row.mined = NoHeight => Owed
  <2>1. CASE row = tx
    BY <1>1, <1>6, <2>1 DEF Owed, Unobservable
  <2>2. CASE row # tx
    BY <1>2, <2>2, RowFields, Zenon
  <2>. QED BY <2>1, <2>2
<1>8. CASE ~due /\ tx' = row /\ UNCHANGED << receipt, status >>
  <2>1. KeepsEvidence
    BY <1>7, <1>8 DEF KeepsEvidence
  <2>2. Owed' => Owed
    BY <1>7, <1>8 DEF Owed, Unobservable
  <2>. QED BY <1>1, <1>5, <1>7, <1>8, <2>1, <2>2 DEF Scanned
<1>9. CASE /\ due /\ (row.mined # NoHeight \/ Restores(row))
           /\ tx' = IF row.mined # NoHeight THEN row
                    ELSE RecordMined(row, receipt.height)
           /\ receipt' = NoReceipt
           /\ status' = Completed(status)
  <2>1. /\ status' \in {"none", "queued", "reconfirm"}
        /\ status' = "none" => status = "none"
        /\ ~receipt'.held /\ receipt' \in Receipt \cup {NoReceipt}
    BY <1>1, <1>9 DEF Completed, NoReceipt
  <2>5. receipt \in Receipt
    BY <1>1, <1>9 DEF NoReceipt
  <2>2. receipt.height \in Heights
    BY <2>5, ReceiptFields, ZenonT(40)
  <2>6. row \in TxRow
    BY <1>7, <1>9, KnownRow
  <2>3. CASE row.mined # NoHeight
    <3>1. KeepsEvidence
      BY <1>7, <1>9, <2>3 DEF KeepsEvidence
    <3>2. Owed' => Owed
      BY <1>7, <1>9, <2>3 DEF Owed, Unobservable
    <3>. QED BY <1>5, <1>7, <1>9, <2>1, <2>3, <3>1, <3>2 DEF Scanned
  <2>4. CASE row.mined = NoHeight
    <3>1. receipt.block = chain[receipt.height] /\ tx' = RecordMined(row, receipt.height)
      BY <1>9, <2>4 DEF Restores
    <3>2. CASE row \in TxRow
      <4>1. /\ tx' \in TxRow /\ tx'.mined = receipt.height
            /\ tx'.observed <= row.observed /\ tx'.target = row.target
            /\ tx'.noted = row.noted
        BY <2>2, <3>1, <3>2, RecordMinedRow, SMTT(40)
      <4>2. /\ tx'.observed \in 0 .. MaxHeight + 1
            /\ row.observed \in 0 .. MaxHeight + 1
            /\ tx'.known = TRUE /\ row.known = TRUE
        BY <3>2, <4>1, RowFields, Zenon
      <4>3. KeepsEvidence
        BY <1>1, <1>6, <1>7, <4>1, <4>2 DEF KeepsEvidence
      <4>4. ~Owed'
        <5>1. receipt.height # NoHeight
          BY <2>2 DEF Heights, NoHeight
        <5>. QED BY <4>1, <5>1 DEF Owed
      <4>. QED BY <1>5, <1>9, <2>1, <3>1, <4>1, <4>3, <4>4 DEF Scanned
    <3>. QED BY <2>6, <3>2
  <2>. QED BY <2>3, <2>4
<1>10. CASE /\ due /\ row.mined = NoHeight /\ ~Restores(row)
            /\ tx' = row
            /\ receipt' = [receipt EXCEPT !.replaced = TRUE]
            /\ UNCHANGED status
  <2>1. receipt \in Receipt
    BY <1>1, <1>10 DEF NoReceipt
  <2>2. /\ receipt' \in Receipt /\ receipt'.height = receipt.height
        /\ receipt'.block = receipt.block /\ receipt'.replaced = TRUE
    BY <1>10, <2>1, Zenon DEF Receipt
  <2>3. KeepsEvidence
    BY <1>7, <1>10 DEF KeepsEvidence
  <2>4. Owed' => Owed
    BY <1>7, <1>10 DEF Owed, Unobservable
  <2>. QED BY <1>1, <1>5, <1>7, <1>10, <2>1, <2>2, <2>3, <2>4 DEF Scanned
<1>. QED BY <1>8, <1>9, <1>10 DEF PutBlocks, row


-----------------------------------------------------------------------------
(* What an answer, a payload or a transparent output does to them.         *)

Lapsed == tx'.confirmed # NoHeight /\ ~Undecided(tx')

Observed ==
    /\ KeepsEvidence /\ tx'.known
    /\ tx'.mined # NoHeight =>
        \/ tx.known /\ tx'.mined = tx.mined
        \/ /\ tx'.mined \in Heights /\ Included(tx'.mined)
           /\ AnswersAhead \/ blocks[tx'.mined] # NoBlock
    /\ status' \in {"none", "queued", "reconfirm"}
    /\ receipt' \in Receipt \cup {NoReceipt}
    /\ receipt'.held => receipt' = receipt /\ (status' = status \/ status = "none")
    /\ ~Outgoing /\ Owed' /\ status' = "none" => (Owed /\ status = "none") \/ Lapsed
    /\ UNCHANGED << env, fork, sync, viewable >>

(* An answer that the transaction is not mined sets only the height of the *)
(* answer.                                                                 *)
LEMMA SetStatusUnminedObserves ==
    ASSUME TypeOK, SetStatusUnmined
    PROVE  Observed
<1> DEFINE row == IF tx.mined = NoHeight THEN [tx EXCEPT !.confirmed = tip] ELSE tx
<1>1. /\ tx \in TxRow /\ tip \in 0 .. MaxHeight /\ MaxHeight \in Nat
      /\ status \in {"none", "queued", "reconfirm"}
    BY KnownRow, StatusAssumption DEF TypeOK, SetStatusUnmined
<1>2. /\ tx' = row /\ receipt' = NoReceipt
      /\ status' = IF row.mined = NoHeight /\ Undecided(row)
                   THEN Completed(status) ELSE "none"
      /\ UNCHANGED << env, fork, sync, viewable >>
    BY DEF SetStatusUnmined
<1>3. tip \in HeightOrNone /\ tip # NoHeight
    BY <1>1 DEF HeightOrNone, NoHeight
<1>4. /\ row \in TxRow /\ row.mined = tx.mined /\ row.observed = tx.observed
      /\ row.target = tx.target /\ row.noted = tx.noted /\ row.known = TRUE
      /\ row.mined = NoHeight => row.confirmed = tip
    BY <1>1, <1>3, Zenon DEF TxRow
<1> HIDE DEF row
<1>5. tx.observed \in 0 .. MaxHeight + 1
    BY <1>1, RowFields, Zenon
<1>6. KeepsEvidence
  <2>1. tx.known
    BY <1>1, RowFields, Zenon
  <2>2. row.observed <= tx.observed
    BY <1>1, <1>4, <1>5
  <2>. QED BY <1>2, <1>4, <2>1, <2>2 DEF KeepsEvidence
<1>7. /\ status' \in {"none", "queued", "reconfirm"}
      /\ receipt' \in Receipt \cup {NoReceipt} /\ ~receipt'.held
    BY <1>1, <1>2 DEF Completed, NoReceipt
<1>8. Owed' /\ status' = "none" => (Owed /\ status = "none") \/ Lapsed
  <2>1. SUFFICES ASSUME Owed', status' = "none", ~Lapsed
                 PROVE  Owed /\ status = "none"
    OBVIOUS
  <2>2. /\ tx.known /\ ~tx.noted /\ tx.mined = NoHeight
    BY <1>1, <1>2, <1>4, <2>1, RowFields, Zenon DEF Owed, Unobservable
  <2>3. Undecided(row)
    BY <1>2, <1>3, <1>4, <2>1, <2>2 DEF Lapsed
  <2>4. status = "none"
    BY <1>1, <1>2, <1>4, <2>1, <2>2, <2>3 DEF Completed
  <2>. QED BY <2>2, <2>4 DEF Owed, Unobservable
<1>9. tx.known /\ tx'.known /\ tx'.mined = tx.mined
    BY <1>1, <1>2, <1>4, RowFields, Zenon
<1>. QED BY <1>2, <1>6, <1>7, <1>8, <1>9 DEF Observed

(* An observation that records an inclusion at h.                          *)
LEMMA InclusionObserves ==
    ASSUME TypeOK, NEW h \in Heights, AnswerMined(h), KeepsEvidence,
           tx' \in TxRow, tx'.mined = h,
           \/ receipt' = NoReceipt /\ status' = Completed(status)
           \/ UNCHANGED << receipt, status >>,
           UNCHANGED << env, fork, sync, viewable >>
    PROVE  Observed
<1>1. h # NoHeight /\ tx'.known
  <2>1. h # NoHeight
    BY StatusAssumption DEF Heights, NoHeight
  <2>2. tx'.known
    BY RowFields, Zenon
  <2>. QED BY <2>1, <2>2
<1>2. /\ status' \in {"none", "queued", "reconfirm"}
      /\ receipt' \in Receipt \cup {NoReceipt}
      /\ receipt'.held => receipt' = receipt /\ status' = status
    BY DEF TypeOK, Completed, NoReceipt
<1>3. ~Owed'
    BY <1>1 DEF Owed
<1>4. Included(h) /\ (AnswersAhead \/ blocks[h] # NoBlock)
    BY DEF AnswerMined
<1>. QED BY <1>1, <1>2, <1>3, <1>4 DEF Observed

LEMMA SetStatusMinedObserves ==
    ASSUME TypeOK, NEW h \in Heights, SetStatusMined(h)
    PROVE  Observed
<1>1. tx \in TxRow
    BY KnownRow DEF TypeOK, SetStatusMined
<1>2. /\ tx' = RecordMined(tx, h) /\ AnswerMined(h)
      /\ receipt' = NoReceipt /\ status' = Completed(status)
      /\ UNCHANGED << env, fork, sync, viewable >>
    BY DEF SetStatusMined
<1>3. /\ tx' \in TxRow /\ tx'.mined = h
      /\ tx'.observed <= tx.observed /\ tx'.target = tx.target
    BY <1>1, <1>2, RecordMinedRow
<1>4. KeepsEvidence
    BY <1>1, <1>3, RowFields, Zenon DEF KeepsEvidence
<1>. QED BY <1>2, <1>3, <1>4, InclusionObserves

LEMMA StoreMinedObserves ==
    ASSUME TypeOK, NEW h \in Heights, StoreMined(h)
    PROVE  Observed
<1> DEFINE paid == WithPayload(Row(h), h)
           row  == RecordMined(paid, h)
<1>1. tx \in TxRow \cup {NoTx} /\ viewable \in BOOLEAN /\ h \in 0 .. MaxHeight + 1
    BY StatusAssumption DEF TypeOK, Heights
<1>2. /\ tx' = [row EXCEPT !.noted = @ \/ viewable] /\ AnswerMined(h)
      /\ receipt' = NoReceipt /\ status' = Completed(status)
      /\ UNCHANGED << env, fork, sync, viewable >>
    BY DEF StoreMined
<1>3. /\ Row(h) \in TxRow
      /\ tx.known => Row(h) = tx
      /\ ~tx.known => Row(h).target = NoHeight
    BY <1>1, UpsertedRow, Zenon
<1>4. /\ paid \in TxRow /\ paid.observed <= Row(h).observed
      /\ paid.target = Row(h).target
    BY <1>1, <1>3, WithPayloadRow
<1> HIDE DEF paid
<1>5. /\ row \in TxRow /\ row.mined = h
      /\ row.observed <= paid.observed /\ row.target = paid.target
    BY <1>4, RecordMinedRow
<1> HIDE DEF row
<1>6. /\ tx' \in TxRow /\ tx'.mined = h
      /\ tx'.observed = row.observed /\ tx'.target = row.target
    BY <1>1, <1>2, <1>5, Zenon DEF TxRow
<1>7. /\ row.observed \in 0 .. MaxHeight + 1 /\ paid.observed \in 0 .. MaxHeight + 1
      /\ Row(h).observed \in 0 .. MaxHeight + 1 /\ MaxHeight \in Nat
      /\ tx'.known
    BY <1>3, <1>4, <1>5, <1>6, RowFields, StatusAssumption, Zenon
<1>8. tx'.observed <= Row(h).observed /\ tx'.target = Row(h).target
    BY <1>4, <1>5, <1>6, <1>7
<1>9. KeepsEvidence
    BY <1>3, <1>6, <1>7, <1>8 DEF KeepsEvidence
<1>. QED BY <1>2, <1>6, <1>9, InclusionObserves

LEMMA ReceiveUtxoObserves ==
    ASSUME TypeOK, NEW h \in Heights, ReceiveUtxo(h)
    PROVE  Observed
<1> DEFINE row == MinedAt(Row(h), h)
<1>1. /\ tx \in TxRow \cup {NoTx} /\ h \in 0 .. MaxHeight + 1
      /\ tip \in 0 .. MaxHeight /\ MaxHeight \in Nat
    BY StatusAssumption DEF TypeOK, Heights
<1>2. /\ tx' = [row EXCEPT !.observed = Lower(@, tip)] /\ AnswerMined(h)
      /\ UNCHANGED << receipt, status >>
      /\ UNCHANGED << env, fork, sync, viewable >>
    BY DEF ReceiveUtxo
<1>3. /\ Row(h) \in TxRow
      /\ tx.known => Row(h) = tx
      /\ ~tx.known => Row(h).target = NoHeight
    BY <1>1, UpsertedRow, Zenon
<1>4. /\ row \in TxRow /\ row.mined = h
      /\ row.observed <= Row(h).observed /\ row.target = Row(h).target
    BY <1>3, MinedAtRow
<1> HIDE DEF row
<1>5. row.observed \in 0 .. MaxHeight + 1 /\ Row(h).observed \in 0 .. MaxHeight + 1
    BY <1>3, <1>4, RowFields, Zenon
<1>6. /\ Lower(row.observed, tip) \in 0 .. MaxHeight + 1
      /\ Lower(row.observed, tip) <= row.observed
    BY <1>1, <1>5 DEF Lower
<1> HIDE DEF Lower
<1>7. /\ tx' \in TxRow /\ tx'.mined = h /\ tx'.target = row.target
      /\ tx'.observed = Lower(row.observed, tip)
    BY <1>2, <1>4, <1>6, Zenon DEF TxRow
<1>8. /\ tx'.observed <= Row(h).observed /\ tx'.target = Row(h).target
      /\ tx'.known
  <2>1. tx'.known
    BY <1>7, RowFields, Zenon
  <2>. QED BY <1>1, <1>4, <1>5, <1>6, <1>7, <2>1
<1>9. KeepsEvidence
    BY <1>3, <1>7, <1>8 DEF KeepsEvidence
<1>. QED BY <1>2, <1>7, <1>9, InclusionObserves

LEMMA StoreUnminedObserves ==
    ASSUME TypeOK, StoreUnmined
    PROVE  Observed
<1> DEFINE row == WithPayload(Row(tip + 1), tip + 1)
<1>1. /\ tx \in TxRow \cup {NoTx} /\ viewable \in BOOLEAN
      /\ tip \in 0 .. MaxHeight /\ MaxHeight \in Nat /\ Outgoing \in BOOLEAN
      /\ status \in {"none", "queued", "reconfirm"}
    BY StatusAssumption DEF TypeOK
<1>2. /\ tx' = [row EXCEPT !.noted = @ \/ viewable]
      /\ status' = IF viewable \/ Outgoing THEN status ELSE Queued(status)
      /\ UNCHANGED << env, fork, sync, viewable, receipt >>
    BY DEF StoreUnmined
<1>3. tip + 1 \in 0 .. MaxHeight + 1
    BY <1>1
<1>4. /\ Row(tip + 1) \in TxRow
      /\ tx.known => Row(tip + 1) = tx
      /\ ~tx.known => Row(tip + 1).target = NoHeight
                      /\ Row(tip + 1).mined = NoHeight
    BY <1>1, <1>3, UpsertedRow, Zenon
<1>5. /\ row \in TxRow /\ row.observed <= Row(tip + 1).observed
      /\ row.target = Row(tip + 1).target /\ row.mined = Row(tip + 1).mined
    BY <1>3, <1>4, WithPayloadRow
<1> HIDE DEF row
<1>6. /\ tx' \in TxRow /\ tx'.mined = row.mined /\ tx'.observed = row.observed
      /\ tx'.target = row.target /\ tx'.known
      /\ viewable => tx'.noted
    BY <1>1, <1>2, <1>5, Zenon DEF TxRow
<1>7. KeepsEvidence
    BY <1>4, <1>5, <1>6 DEF KeepsEvidence
<1>8. /\ status' \in {"none", "queued", "reconfirm"}
      /\ status' = status \/ status = "none"
      /\ ~viewable /\ ~Outgoing => status' # "none"
    BY <1>1, <1>2 DEF Queued
<1>9. ~Outgoing /\ Owed' => status' # "none"
    BY <1>1, <1>6, <1>8 DEF Owed, Unobservable
<1>10. receipt' = receipt /\ receipt \in Receipt \cup {NoReceipt}
    BY <1>2 DEF TypeOK
<1>11. tx'.mined # NoHeight => tx.known /\ tx'.mined = tx.mined
    BY <1>4, <1>5, <1>6
<1>. QED BY <1>2, <1>6, <1>7, <1>8, <1>9, <1>10, <1>11 DEF Observed


Created(target) ==
    /\ ~exists /\ exists' = TRUE
    /\ ~tx.known /\ tx' \in TxRow
    /\ tx'.mined = NoHeight /\ tx'.target = target /\ tx'.observed <= tip
    /\ target <= tip + 1
    /\ status' \in {"none", "queued", "reconfirm"}
    /\ status' = status \/ status = "none"
    /\ Owed' => status' # "none"
    /\ UNCHANGED << chain, minted, including, fork, sync, viewable, receipt >>

LEMMA CreateCreates ==
    ASSUME TypeOK, NEW target \in 1 .. MaxHeight + 1, Create(target)
    PROVE  Created(target)
<1> DEFINE row == WithPayload(NewRow(target), target)
<1>1. /\ viewable \in BOOLEAN /\ status \in {"none", "queued", "reconfirm"}
      /\ tip \in 0 .. MaxHeight /\ MaxHeight \in Nat
    BY StatusAssumption DEF TypeOK
<1>2. /\ ~exists /\ ~tx.known /\ target <= tip + 1 /\ exists' = TRUE
      /\ tx' = [row EXCEPT !.target = target, !.observed = Lower(@, tip),
                           !.noted = viewable]
      /\ status' = IF viewable THEN status ELSE Queued(status)
      /\ UNCHANGED << chain, minted, including, fork, sync, viewable, receipt >>
    BY DEF Create
<1>3. target \in 0 .. MaxHeight + 1 /\ target \in HeightOrNone
    BY <1>1 DEF HeightOrNone
<1>4. NewRow(target) \in TxRow /\ NewRow(target).mined = NoHeight
    BY <1>3, NewRowFields, Zenon
<1>5. row \in TxRow /\ row.mined = NoHeight
    BY <1>3, <1>4, WithPayloadRow
<1> HIDE DEF row
<1>6. row.observed \in 0 .. MaxHeight + 1
    BY <1>5, RowFields, Zenon
<1>7. Lower(row.observed, tip) \in 0 .. MaxHeight + 1
      /\ Lower(row.observed, tip) <= tip
    BY <1>1, <1>6 DEF Lower
<1> HIDE DEF Lower
<1>8. /\ tx' \in TxRow /\ tx'.mined = NoHeight /\ tx'.target = target
      /\ tx'.observed = Lower(row.observed, tip) /\ tx'.noted = viewable
    BY <1>1, <1>2, <1>3, <1>5, <1>7, Zenon DEF TxRow
<1>9. /\ status' \in {"none", "queued", "reconfirm"}
      /\ status' = status \/ status = "none"
      /\ ~viewable => status' # "none"
    BY <1>1, <1>2 DEF Queued
<1>10. Owed' => status' # "none"
    BY <1>8, <1>9 DEF Owed, Unobservable
<1>. QED BY <1>2, <1>7, <1>8, <1>9, <1>10 DEF Created

-----------------------------------------------------------------------------
(* Every step of the wallet is one of these.                               *)

Backward(floor) ==
    /\ WentBack(floor)
    /\ scanned' = scanned \cap 1 .. floor
    /\ fork' = RewoundFork(floor)
    /\ tip' \in 0 .. MaxHeight /\ tip' <= tip
    /\ viewable' \in BOOLEAN
    /\ UNCHANGED env

Effect ==
    \/ Mining \/ Reorganising \/ UpdateChainTip
    \/ \E s, e \in Heights : PutBlocks(s, e) /\ Scanned(s, e)
    \/ \E floor \in 0 .. MaxHeight : Backward(floor)
    \/ Observed
    \/ \E target \in 1 .. MaxHeight + 1 : Created(target)

(* Receipts cascade with the row of their transaction.                     *)
ReceiptOfKnown == receipt.held => tx.known

LEMMA StepEffect ==
    ASSUME TypeOK, ReceiptOfKnown, Next
    PROVE  Effect
<1>1. tip \in 0 .. MaxHeight /\ viewable \in BOOLEAN /\ MaxHeight \in Nat
    BY StatusAssumption DEF TypeOK
<1>2. CASE Scanning
  <2>1. PICK s \in Heights, e \in Heights : PutBlocks(s, e)
    BY <1>2 DEF Scanning
  <2>2. Scanned(s, e)
    BY <2>1, PutBlocksScans DEF ReceiptOfKnown
  <2>. QED BY <2>1, <2>2 DEF Effect
<1>3. CASE \E h \in 0 .. MaxHeight : Truncate(h)
  <2>1. PICK h \in 0 .. MaxHeight : Truncate(h)
    BY <1>3
  <2>2. /\ TruncateToHeightInternal(h, h) /\ scanned' = scanned \cap 1 .. h
        /\ tip' = Lower(tip, h) /\ fork' = RewoundFork(h)
        /\ UNCHANGED << env, viewable >>
    BY <2>1 DEF Truncate
  <2>3. WentBack(h)
    BY <2>2, TruncationGoesBack
  <2>4. tip' \in 0 .. MaxHeight /\ tip' <= tip
    BY <1>1, <2>2 DEF Lower
  <2>5. Backward(h)
    BY <1>1, <2>2, <2>3, <2>4 DEF Backward
  <2>. QED BY <2>5 DEF Effect
<1>4. CASE \E target, trunc \in 0 .. MaxHeight :
              Rewind(target, trunc) \/ ImportAccount(target, trunc)
  <2>1. PICK target \in 0 .. MaxHeight, trunc \in 0 .. MaxHeight :
            RewindWallet(target, trunc) /\ viewable' \in {viewable, TRUE}
    BY <1>4, Zenon DEF Rewind, ImportAccount
  <2>2. WentBack(target)
    BY <2>1, RewindGoesBack
  <2>3. /\ scanned' = scanned \cap 1 .. target /\ fork' = RewoundFork(target)
        /\ UNCHANGED << env, tip >>
    BY <2>1 DEF RewindWallet
  <2>4. tip' \in 0 .. MaxHeight /\ tip' <= tip /\ viewable' \in BOOLEAN
    <3>1. viewable' \in BOOLEAN
      BY <1>1, <2>1, Zenon
    <3>2. tip' = tip
      BY <2>3
    <3>. QED BY <1>1, <3>1, <3>2
  <2>5. Backward(target)
    BY <2>2, <2>3, <2>4 DEF Backward
  <2>. QED BY <2>5 DEF Effect
<1>5. CASE Answering
    BY <1>5, SetStatusUnminedObserves, SetStatusMinedObserves
    DEF Answering, Effect
<1>6. CASE Storing
  <2>1. CASE \E h \in Heights : StoreMined(h) \/ ReceiveUtxo(h)
    BY <2>1, StoreMinedObserves, ReceiveUtxoObserves DEF Effect
  <2>2. CASE StoreUnmined
    BY <2>2, StoreUnminedObserves DEF Effect
  <2>3. CASE \E target \in 1 .. MaxHeight + 1 : Create(target)
    BY <2>3, CreateCreates DEF Effect
  <2>. QED BY <1>6, <2>1, <2>2, <2>3 DEF Storing
<1>. QED BY <1>2, <1>3, <1>4, <1>5, <1>6 DEF Next, GoingBack, Effect

-----------------------------------------------------------------------------
(* Type correctness.                                                       *)

LEMMA InitTyped == Init => TypeOK /\ ReceiptOfKnown
<1> SUFFICES ASSUME Init PROVE TypeOK /\ ReceiptOfKnown
    OBVIOUS
<1>1. MaxHeight \in Nat /\ MaxBlocks \in Nat
    BY StatusAssumption
<1>2. chain \in Seq(BlockNames) /\ Len(chain) = 0
    BY DEF Init
<1>3. fork \in {NoHeight} /\ tip \in 0 .. MaxHeight /\ minted \in 0 .. MaxBlocks
    BY <1>1 DEF Init
<1>4. blocks \in [Heights -> BlockNames \cup {NoBlock}]
    BY DEF Init
<1>. QED BY <1>1, <1>2, <1>3, <1>4 DEF Init, TypeOK, ReceiptOfKnown, NoReceipt

LEMMA StepTyped ==
    ASSUME TypeOK, ReceiptOfKnown, [Next]_vars
    PROVE  TypeOK' /\ ReceiptOfKnown'
<1>1. /\ chain \in Seq(BlockNames) /\ Len(chain) \in Nat /\ Len(chain) <= MaxHeight
      /\ minted \in 0 .. MaxBlocks /\ including \subseteq BlockNames
      /\ exists \in BOOLEAN /\ fork \in {NoHeight} \cup 0 .. MaxHeight
      /\ tip \in 0 .. MaxHeight /\ scanned \subseteq Heights
      /\ blocks \in [Heights -> BlockNames \cup {NoBlock}]
      /\ viewable \in BOOLEAN
      /\ tx \in TxRow \cup {NoTx} /\ receipt \in Receipt \cup {NoReceipt}
      /\ status \in {"none", "queued", "reconfirm"}
      /\ MaxHeight \in Nat /\ MaxBlocks \in Nat
    BY StatusAssumption DEF TypeOK
<1>2. CASE UNCHANGED vars
    BY <1>2 DEF vars, env, wallet, sync, TypeOK, ReceiptOfKnown
<1>3. CASE Mining
  <2>1. PICK include \in BOOLEAN : MineBlock(include)
    BY <1>3 DEF Mining
  <2>2. /\ chain' \in Seq(BlockNames) /\ Len(chain') <= MaxHeight
        /\ minted' \in 0 .. MaxBlocks /\ minted + 1 \in BlockNames
        /\ including' \subseteq including \cup {minted + 1}
    BY <2>1, ChainGrows
  <2>3. UNCHANGED << exists, fork, wallet >>
    BY <2>1 DEF MineBlock
  <2>. QED BY <1>1, <2>2, <2>3 DEF wallet, sync, TypeOK, ReceiptOfKnown
<1>4. CASE Reorganising
  <2>1. PICK f \in 0 .. MaxHeight, at \in {NoHeight} \cup Heights : Reorg(f, at)
    BY <1>4 DEF Reorganising
  <2>2. /\ chain' \in Seq(BlockNames) /\ Len(chain') = Len(chain)
        /\ minted' \in 0 .. MaxBlocks
        /\ \A b \in including' \ including : b \in BlockNames
        /\ fork' \in 0 .. MaxHeight
    BY <2>1, ChainReplaced
  <2>3. UNCHANGED << exists, wallet >>
    BY <2>1 DEF Reorg
  <2>4. including' \subseteq BlockNames
    BY <1>1, <2>2
  <2>. QED BY <1>1, <2>2, <2>3, <2>4 DEF wallet, sync, TypeOK, ReceiptOfKnown
<1>5. CASE UpdateChainTip
  <2>1. /\ tip' = Len(chain)
        /\ UNCHANGED << env, fork, blocks, scanned, viewable, tx, receipt, status >>
    BY <1>5 DEF UpdateChainTip
  <2>2. tip' \in 0 .. MaxHeight
    BY <1>1, <2>1, SMTT(40)
  <2>. QED BY <1>1, <2>1, <2>2 DEF env, TypeOK, ReceiptOfKnown
<1>6. CASE \E s, e \in Heights : PutBlocks(s, e) /\ Scanned(s, e)
  <2>1. PICK s \in Heights, e \in Heights : PutBlocks(s, e) /\ Scanned(s, e)
    BY <1>6
  <2>2. scanned' = scanned \cup s .. e /\ UNCHANGED << env, fork, tip, viewable >>
    BY <2>1 DEF PutBlocks
  <2>3. s .. e \subseteq Heights
    BY <1>1, SMTT(40) DEF Heights
  <2>4. ReceiptOfKnown'
    BY <2>1 DEF Scanned, KeepsEvidence, ReceiptOfKnown
  <2>. QED BY <1>1, <2>1, <2>2, <2>3, <2>4 DEF Scanned, KeepsEvidence, env, TypeOK
<1>7. CASE \E floor \in 0 .. MaxHeight : Backward(floor)
  <2>1. PICK floor \in 0 .. MaxHeight : Backward(floor)
    BY <1>7, SMTT(40)
  <2>2. ReceiptOfKnown'
    BY <2>1 DEF Backward, WentBack, ReceiptOfKnown
  <2>3. fork' \in {NoHeight} \cup 0 .. MaxHeight
    BY <1>1, <2>1, SMTT(40) DEF Backward, RewoundFork
  <2>. QED BY <1>1, <2>1, <2>2, <2>3 DEF Backward, WentBack, env, TypeOK
<1>8. CASE Observed
    BY <1>1, <1>8 DEF Observed, KeepsEvidence, env, sync, TypeOK, ReceiptOfKnown
<1>9. CASE \E target \in 1 .. MaxHeight + 1 : Created(target)
  <2>1. tx'.known
    BY <1>9, RowFields, Zenon DEF Created
  <2>. QED BY <1>1, <1>9, <2>1, SMTT(40) DEF Created, sync, TypeOK, ReceiptOfKnown
<1>. QED BY <1>2, <1>3, <1>4, <1>5, <1>6, <1>7, <1>8, <1>9, StepEffect DEF Effect

(* The wallet's rows keep their types, and a receipt belongs to a stored   *)
(* transaction.                                                            *)
THEOREM StatusTypeCorrect == Spec => [](TypeOK /\ ReceiptOfKnown)
<1>1. Init => TypeOK /\ ReceiptOfKnown
    BY InitTyped
<1>2. TypeOK /\ ReceiptOfKnown /\ [Next]_vars => (TypeOK /\ ReceiptOfKnown)'
    BY StepTyped
<1>. QED BY <1>1, <1>2, PTL DEF Spec

-----------------------------------------------------------------------------
(* A receipt and the obligation it may settle.                             *)

LEMMA StepKeepsObligation ==
    ASSUME TypeOK, ReceiptOfKnown, ReceiptBacksObligation, [Next]_vars
    PROVE  ReceiptBacksObligation'
<1>1. CASE UNCHANGED << receipt, status >>
    BY <1>1 DEF ReceiptBacksObligation
<1>2. CASE \E s, e \in Heights : PutBlocks(s, e) /\ Scanned(s, e)
    BY <1>2 DEF Scanned, ReceiptBacksObligation
<1>3. CASE \E floor \in 0 .. MaxHeight : Backward(floor)
    BY <1>3 DEF Backward, WentBack, ReceiptBacksObligation
<1>4. CASE Observed
    BY <1>4 DEF Observed, ReceiptBacksObligation
<1>5. CASE \E target \in 1 .. MaxHeight + 1 : Created(target)
    BY <1>5 DEF Created, ReceiptBacksObligation
<1>6. CASE UNCHANGED vars \/ Mining \/ Reorganising \/ UpdateChainTip
    BY <1>1, <1>6 DEF vars, wallet, Mining, MineBlock, Reorganising, Reorg,
                      UpdateChainTip
<1>. QED BY <1>2, <1>3, <1>4, <1>5, <1>6, StepEffect DEF Effect

(* A receipt is held only while the transaction is marked for              *)
(* reconfirmation: capture, reset, restoration and every answer keep the   *)
(* two tables together.                                                    *)
THEOREM ReceiptsBackObligations == Spec => []ReceiptBacksObligation
<1>1. Init => ReceiptBacksObligation
    BY DEF Init, ReceiptBacksObligation, NoReceipt
<1>2. TypeOK /\ ReceiptOfKnown /\ ReceiptBacksObligation /\ [Next]_vars
        => ReceiptBacksObligation'
    BY StepKeepsObligation
<1>. QED BY <1>1, <1>2, StatusTypeCorrect, PTL DEF Spec


-----------------------------------------------------------------------------
(* A receipt that withholds the query waits for a scan that is to come.    *)

LEMMA StepKeepsWaitingDue ==
    ASSUME TypeOK, ReceiptOfKnown, WaitingIsDue, [Next]_vars
    PROVE  WaitingIsDue'
<1>1. CASE UNCHANGED << receipt, scanned >>
    BY <1>1, Zenon DEF WaitingIsDue, Waiting
<1>2. CASE \E s, e \in Heights : PutBlocks(s, e) /\ Scanned(s, e)
  <2>1. PICK s \in Heights, e \in Heights : PutBlocks(s, e) /\ Scanned(s, e)
    BY <1>2
  <2>2. scanned' = scanned \cup s .. e
    BY <2>1 DEF PutBlocks
  <2>. QED BY <2>1, <2>2 DEF Scanned, WaitingIsDue, Waiting
<1>3. CASE \E floor \in 0 .. MaxHeight : Backward(floor)
  <2>1. PICK floor \in 0 .. MaxHeight : Backward(floor)
    BY <1>3
  <2>2. SUFFICES ASSUME receipt'.held, ~receipt'.replaced
                 PROVE  receipt'.height \notin scanned'
    BY DEF WaitingIsDue, Waiting
  <2>3. scanned' = scanned \cap 1 .. floor
    BY <2>1, SMTT(40) DEF Backward
  <2>4. \/ receipt'.height = receipt.height /\ receipt.height > floor
        \/ receipt' = receipt
        \/ receipt'.height = tx.mined /\ tx.mined > floor
    BY <2>1, <2>2 DEF Backward, WentBack
  <2>5. CASE receipt' = receipt
    BY <2>2, <2>3, <2>5 DEF WaitingIsDue, Waiting
  <2>6. CASE receipt'.height > floor
    <3>1. receipt' \in Receipt
      BY <2>1, <2>2 DEF Backward, WentBack, NoReceipt
    <3>2. receipt'.height \in Heights
      BY <3>1, ReceiptFields, Zenon
    <3>. QED BY <2>3, <2>6, <3>2, StatusAssumption, SMTT(40) DEF Heights
  <2>. QED BY <2>4, <2>5, <2>6
<1>4. CASE Observed
    BY <1>4 DEF Observed, sync, WaitingIsDue, Waiting
<1>5. CASE \E target \in 1 .. MaxHeight + 1 : Created(target)
    BY <1>1, <1>5 DEF Created, sync
<1>6. CASE UNCHANGED vars \/ Mining \/ Reorganising \/ UpdateChainTip
    BY <1>1, <1>6 DEF vars, wallet, sync, Mining, MineBlock, Reorganising, Reorg,
                      UpdateChainTip
<1>. QED BY <1>2, <1>3, <1>4, <1>5, <1>6, StepEffect DEF Effect

(* The automatic status query is never withheld for a receipt whose height *)
(* is already scanned.                                                     *)
THEOREM WaitingReceiptsAreDue == Spec => []WaitingIsDue
<1>1. Init => WaitingIsDue
    BY DEF Init, WaitingIsDue, Waiting, NoReceipt
<1>2. TypeOK /\ ReceiptOfKnown /\ WaitingIsDue /\ [Next]_vars => WaitingIsDue'
    BY StepKeepsWaitingDue
<1>. QED BY <1>1, <1>2, StatusTypeCorrect, PTL DEF Spec

-----------------------------------------------------------------------------
(* The status obligation.                                                  *)

LEMMA StepKeepsOwed ==
    ASSUME TypeOK, ReceiptOfKnown, Outgoing = FALSE, [Next]_vars,
           Owed', status' = "none"
    PROVE  (Owed /\ status = "none") \/ Lapsed
<1>1. CASE UNCHANGED << tx, status >>
    BY <1>1, SMTT(40) DEF Owed, Unobservable
<1>2. CASE \E s, e \in Heights : PutBlocks(s, e) /\ Scanned(s, e)
    BY <1>2, SMTT(40) DEF Scanned
<1>3. CASE \E floor \in 0 .. MaxHeight : Backward(floor)
    BY <1>3 DEF Backward, WentBack, Owed, Unobservable
<1>4. CASE Observed
    BY <1>4 DEF Observed
<1>5. CASE \E target \in 1 .. MaxHeight + 1 : Created(target)
    BY <1>5 DEF Created
<1>6. CASE UNCHANGED vars \/ Mining \/ Reorganising \/ UpdateChainTip
    BY <1>1, <1>6 DEF vars, wallet, Mining, MineBlock, Reorganising, Reorg,
                      UpdateChainTip
<1>. QED BY <1>2, <1>3, <1>4, <1>5, <1>6, StepEffect DEF Effect

(* When no output is decrypted with an outgoing viewing key, a transaction *)
(* that scanning cannot find again keeps its status obligation until an    *)
(* answer finds it absent past its expiry.                                 *)
THEOREM ObligationsKept ==
    ASSUME Outgoing = FALSE
    PROVE  Spec => ObligationKept
<1>1. TypeOK /\ ReceiptOfKnown /\ [Next]_vars
        => [Owed' /\ status' = "none" =>
               \/ Owed /\ status = "none"
               \/ tx'.confirmed # NoHeight /\ ~Undecided(tx')]_vars
    BY StepKeepsOwed, Zenon DEF Lapsed
<1>. QED BY <1>1, StatusTypeCorrect, PTL DEF Spec, ObligationKept


-----------------------------------------------------------------------------
(* The chain: blocks are named in the order in which they are mined.       *)

ChainInv ==
    /\ \A h \in 1 .. Len(chain) : chain[h] <= minted
    /\ \A g, h \in 1 .. Len(chain) : g < h => chain[g] < chain[h]
    /\ \A b \in including : b <= minted
    /\ ~exists => including = {}

(* A chain that keeps its blocks up to height f and continues with new     *)
(* ones.                                                                   *)
Extends(f) ==
    /\ f \in 0 .. Len(chain) /\ Len(chain') \in Nat /\ Len(chain) <= Len(chain')
    /\ \A h \in 1 .. f : chain'[h] = chain[h]
    /\ \A h \in 1 .. Len(chain') : h > f => chain'[h] = minted + h - f
    /\ minted' = minted + Len(chain') - f
    /\ including \subseteq including'
    /\ \A b \in including' \ including : minted < b /\ b <= minted'
    /\ UNCHANGED exists /\ (~exists => including' = including)
    /\ UNCHANGED wallet

LEMMA MiningExtends ==
    ASSUME TypeOK, Mining
    PROVE  Extends(Len(chain)) /\ UNCHANGED fork
<1>1. PICK include \in BOOLEAN : MineBlock(include)
    BY DEF Mining
<1>2. /\ Len(chain) \in Nat /\ minted \in Nat /\ including \subseteq BlockNames
    BY StatusAssumption DEF TypeOK
<1>3. /\ Len(chain') = Len(chain) + 1
      /\ \A h \in 1 .. Len(chain) : chain'[h] = chain[h]
      /\ chain'[Len(chain) + 1] = minted + 1
      /\ minted' = minted + 1
      /\ including \subseteq including'
      /\ including' \subseteq including \cup {minted + 1}
    BY <1>1, ChainGrows
<1>4. /\ UNCHANGED << exists, fork, wallet >> /\ (~exists => including' = including)
    BY <1>1 DEF MineBlock, MayInclude
<1>5. \A h \in 1 .. Len(chain') : h > Len(chain) => chain'[h] = minted + h - Len(chain)
  <2>1. SUFFICES ASSUME NEW h \in 1 .. Len(chain'), h > Len(chain)
                 PROVE  chain'[h] = minted + h - Len(chain)
    OBVIOUS
  <2>2. h = Len(chain) + 1
    BY <1>2, <1>3, <2>1
  <2>. QED BY <1>2, <1>3, <2>2
<1>6. \A b \in including' \ including : minted < b /\ b <= minted'
    BY <1>2, <1>3
<1>7. /\ Len(chain) \in 0 .. Len(chain) /\ Len(chain') \in Nat
      /\ Len(chain) <= Len(chain')
      /\ minted' = minted + Len(chain') - Len(chain)
    BY <1>2, <1>3
<1>. QED BY <1>3, <1>4, <1>5, <1>6, <1>7 DEF Extends

LEMMA ReorgExtends ==
    ASSUME TypeOK, Reorganising
    PROVE  \E f \in 0 .. MaxHeight :
              /\ Extends(f)
              /\ fork' \in 0 .. MaxHeight /\ fork' <= f
              /\ fork # NoHeight => fork' <= fork
<1>1. PICK f \in 0 .. MaxHeight, at \in {NoHeight} \cup Heights : Reorg(f, at)
    BY DEF Reorganising
<1>2. /\ Len(chain) \in Nat /\ minted \in Nat /\ including \subseteq BlockNames
      /\ MaxHeight \in Nat
    BY StatusAssumption DEF TypeOK
<1>3. /\ Len(chain') = Len(chain) /\ f < Len(chain)
      /\ \A h \in 1 .. Len(chain) :
            chain'[h] = IF h <= f THEN chain[h] ELSE minted + h - f
      /\ minted' = minted + Len(chain) - f
      /\ including \subseteq including'
      /\ \A b \in including' \ including :
            at # NoHeight /\ b = minted + at - f /\ f < at /\ at <= Len(chain)
      /\ fork' \in 0 .. MaxHeight /\ fork' <= f
      /\ fork # NoHeight => fork' <= fork
    BY <1>1, ChainReplaced
<1>4. /\ UNCHANGED << exists, wallet >> /\ (~exists => including' = including)
    BY <1>1 DEF Reorg, MayInclude
<1>5. \A b \in including' \ including : minted < b /\ b <= minted'
    BY <1>2, <1>3 DEF Heights
<1>6. /\ f \in 0 .. Len(chain) /\ Len(chain') \in Nat /\ Len(chain) <= Len(chain')
      /\ \A h \in 1 .. f : chain'[h] = chain[h]
      /\ \A h \in 1 .. Len(chain') : h > f => chain'[h] = minted + h - f
      /\ minted' = minted + Len(chain') - f
    BY <1>2, <1>3
<1>7. Extends(f)
    BY <1>3, <1>4, <1>5, <1>6 DEF Extends
<1>. QED BY <1>3, <1>7

LEMMA ExtensionKeepsChainInv ==
    ASSUME TypeOK, ChainInv, NEW f \in 0 .. MaxHeight, Extends(f)
    PROVE  /\ ChainInv'
           /\ \A h \in 1 .. f : chain'[h] \in including' => chain[h] \in including
<1>1. /\ Len(chain) \in Nat /\ minted \in Nat /\ including \subseteq BlockNames
      /\ MaxHeight \in Nat /\ BlockNames \subseteq Int
      /\ \A h \in 1 .. Len(chain) : chain[h] \in Int
    BY StatusAssumption DEF TypeOK, BlockNames
<1>2. /\ f \in 0 .. Len(chain) /\ Len(chain') \in Nat /\ Len(chain) <= Len(chain')
      /\ \A h \in 1 .. f : chain'[h] = chain[h]
      /\ \A h \in 1 .. Len(chain') : h > f => chain'[h] = minted + h - f
      /\ minted' = minted + Len(chain') - f
      /\ including \subseteq including'
      /\ \A b \in including' \ including : minted < b /\ b <= minted'
    BY DEF Extends
<1>3. \A h \in 1 .. f : chain'[h] <= minted /\ chain'[h] \in Int
    BY <1>1, <1>2 DEF ChainInv
<1>4. \A h \in 1 .. Len(chain') : chain'[h] <= minted'
  <2>1. SUFFICES ASSUME NEW h \in 1 .. Len(chain') PROVE chain'[h] <= minted'
    OBVIOUS
  <2>2. CASE h <= f
    BY <1>1, <1>2, <1>3, <2>2
  <2>3. CASE h > f
    BY <1>1, <1>2, <2>3
  <2>. QED BY <1>2, <2>2, <2>3
<1>5. \A g, h \in 1 .. Len(chain') : g < h => chain'[g] < chain'[h]
  <2>1. SUFFICES ASSUME NEW g \in 1 .. Len(chain'), NEW h \in 1 .. Len(chain'), g < h
                 PROVE  chain'[g] < chain'[h]
    OBVIOUS
  <2>2. CASE h <= f
    BY <1>1, <1>2, <2>1, <2>2, SMTT(40) DEF ChainInv
  <2>3. CASE g <= f /\ h > f
    BY <1>1, <1>2, <1>3, <2>1, <2>3, SMTT(40)
  <2>4. CASE g > f
    BY <1>1, <1>2, <2>1, <2>4
  <2>. QED BY <1>2, <2>2, <2>3, <2>4
<1>6. \A b \in including' : b <= minted'
    BY <1>1, <1>2 DEF ChainInv
<1>7. ~exists' => including' = {}
    BY DEF Extends, ChainInv
<1>8. \A h \in 1 .. f : chain'[h] \in including' => chain[h] \in including
    BY <1>1, <1>2, <1>3
<1>9. ChainInv'
    BY <1>4, <1>5, <1>6, <1>7 DEF ChainInv
<1>. QED BY <1>8, <1>9

LEMMA StepKeepsChainInv ==
    ASSUME TypeOK, ReceiptOfKnown, ChainInv, [Next]_vars
    PROVE  ChainInv'
<1>1. CASE UNCHANGED env
    BY <1>1 DEF env, ChainInv
<1>2. CASE Mining
  <2>1. Extends(Len(chain)) /\ Len(chain) \in 0 .. MaxHeight
    BY <1>2, MiningExtends, StatusAssumption DEF TypeOK
  <2>. QED BY <2>1, ExtensionKeepsChainInv
<1>3. CASE Reorganising
    BY <1>3, ReorgExtends, ExtensionKeepsChainInv
<1>4. CASE \E target \in 1 .. MaxHeight + 1 : Created(target)
    BY <1>4 DEF Created, ChainInv
<1>5. CASE \/ UNCHANGED vars \/ UpdateChainTip
           \/ \E s, e \in Heights : PutBlocks(s, e)
           \/ \E floor \in 0 .. MaxHeight : Backward(floor)
           \/ Observed
  <2>1. UNCHANGED env
    BY <1>5 DEF vars, UpdateChainTip, PutBlocks, Backward, Observed
  <2>. QED BY <1>1, <2>1
<1>. QED BY <1>2, <1>3, <1>4, <1>5, StepEffect DEF Effect


-----------------------------------------------------------------------------
(* The inclusion bound.  While the wallet has not rewound below a          *)
(* reorganisation, only blocks above its fork can escape the bound.        *)

Bounds(h) == tx.target <= h \/ tx.observed <= h

EvidenceInv ==
    /\ tip <= Len(chain)
    /\ tx.known /\ tx.target # NoHeight =>
        /\ Bounds(Len(chain))
        /\ \A h \in Heights :
                Included(h) => Bounds(h) \/ (fork # NoHeight /\ fork < h)

LEMMA EvidenceBounds ==
    ASSUME TypeOK, EvidenceInv
    PROVE  EvidenceConservative
<1> SUFFICES ASSUME tx.known, tx.target # NoHeight, fork = NoHeight,
                    NEW h \in Heights, Included(h)
             PROVE  Lower(tx.target, tx.observed) <= h
    BY DEF EvidenceConservative
<1>1. tx \in TxRow /\ MaxHeight \in Nat
    BY KnownRow, StatusAssumption DEF TypeOK
<1>2. tx.target \in HeightOrNone /\ tx.observed \in 0 .. MaxHeight + 1
    BY <1>1, RowFields, Zenon
<1>3. tx.target <= h \/ tx.observed <= h
    BY DEF EvidenceInv, Bounds
<1>. QED BY <1>1, <1>2, <1>3 DEF Lower, Heights, HeightOrNone, NoHeight

(* An observation that keeps the target and lowers the first height seen   *)
(* bounds no less.                                                         *)
LEMMA BoundsKept ==
    ASSUME TypeOK, tx' \in TxRow, tx.known, tx'.target = tx.target,
           tx'.observed <= tx.observed, NEW h \in Int, Bounds(h)
    PROVE  tx'.target <= h \/ tx'.observed <= h
<1>1. tx \in TxRow /\ MaxHeight \in Nat
    BY KnownRow, StatusAssumption DEF TypeOK
<1>2. tx.observed \in 0 .. MaxHeight + 1
    BY <1>1, RowFields, Zenon
<1>3. tx'.observed \in 0 .. MaxHeight + 1
    BY RowFields, Zenon
<1>. QED BY <1>1, <1>2, <1>3 DEF Bounds

LEMMA EvidenceKept ==
    ASSUME TypeOK, EvidenceInv, KeepsEvidence,
           UNCHANGED << env, fork, tip >>
    PROVE  EvidenceInv'
<1>1. UNCHANGED << chain, including, fork, tip >> /\ Len(chain) \in Int
    BY DEF TypeOK, env
<1>2. ASSUME tx'.known, tx'.target # NoHeight
      PROVE  /\ tx.known /\ tx.target # NoHeight
             /\ \A h \in Int : Bounds(h) => tx'.target <= h \/ tx'.observed <= h
  <2>1. tx' \in TxRow /\ tx.known /\ tx'.target = tx.target /\ tx'.observed <= tx.observed
    BY <1>2, KnownRow DEF KeepsEvidence
  <2>. QED BY <1>2, <2>1, BoundsKept
<1>3. Heights \subseteq Int
    BY DEF Heights
<1>. QED BY <1>1, <1>2, <1>3 DEF EvidenceInv, Bounds, Included

LEMMA EvidenceOnExtension ==
    ASSUME TypeOK, ChainInv, EvidenceInv,
           NEW f \in 0 .. MaxHeight, Extends(f),
           \/ f = Len(chain) /\ UNCHANGED fork
           \/ /\ fork' \in 0 .. MaxHeight /\ fork' <= f
              /\ fork # NoHeight => fork' <= fork
    PROVE  EvidenceInv'
<1>1. /\ Len(chain) \in Nat /\ MaxHeight \in Nat /\ Len(chain) <= MaxHeight
      /\ tip \in 0 .. MaxHeight /\ tx \in TxRow \cup {NoTx}
      /\ fork \in {NoHeight} \cup 0 .. MaxHeight
    BY StatusAssumption DEF TypeOK
<1>2. /\ f \in 0 .. Len(chain) /\ Len(chain') \in Nat /\ Len(chain) <= Len(chain')
      /\ UNCHANGED << tip, tx >>
    BY DEF Extends, wallet, sync
<1>3. \A h \in 1 .. f : chain'[h] \in including' => chain[h] \in including
    BY ExtensionKeepsChainInv
<1>4. tip' <= Len(chain')
    BY <1>1, <1>2 DEF EvidenceInv
<1>5. SUFFICES ASSUME tx.known, tx.target # NoHeight
               PROVE  /\ tx.target <= Len(chain') \/ tx.observed <= Len(chain')
                      /\ \A h \in Heights : Included(h)' =>
                            \/ tx.target <= h \/ tx.observed <= h
                            \/ fork' # NoHeight /\ fork' < h
    BY <1>2, <1>4 DEF EvidenceInv, Bounds
<1>6. tx.target \in Int /\ tx.observed \in Int
  <2>1. tx.observed \in 0 .. MaxHeight + 1 /\ tx.target \in HeightOrNone
    BY <1>1, <1>5, KnownRow, RowFields, Zenon
  <2>. QED BY <1>1, <2>1 DEF HeightOrNone, NoHeight
<1>7. tx.target <= Len(chain) \/ tx.observed <= Len(chain)
    BY <1>5 DEF EvidenceInv, Bounds
<1>8. ASSUME NEW h \in Heights, Included(h)'
      PROVE  \/ tx.target <= h \/ tx.observed <= h
             \/ fork' # NoHeight /\ fork' < h
  <2>1. h \in 1 .. Len(chain') /\ chain'[h] \in including'
    BY <1>8 DEF Included
  <2>2. CASE h <= f
    <3>1. Included(h)
      BY <1>1, <1>2, <1>3, <2>1, <2>2 DEF Included
    <3>2. tx.target <= h \/ tx.observed <= h \/ (fork # NoHeight /\ fork < h)
      BY <1>5, <3>1 DEF EvidenceInv, Bounds
    <3>. QED BY <1>1, <2>1, <3>2 DEF NoHeight
  <2>3. CASE h > f /\ f = Len(chain)
    BY <1>1, <1>2, <1>6, <1>7, <2>1, <2>3
  <2>4. CASE h > f /\ fork' \in 0 .. MaxHeight /\ fork' <= f
    BY <1>1, <1>2, <2>1, <2>4 DEF NoHeight
  <2>. QED BY <1>1, <1>2, <2>1, <2>2, <2>3, <2>4
<1>. QED BY <1>1, <1>2, <1>6, <1>7, <1>8

LEMMA StepKeepsEvidence ==
    ASSUME TypeOK, ReceiptOfKnown, ChainInv, EvidenceInv, [Next]_vars
    PROVE  EvidenceInv'
<1>1. /\ Len(chain) \in Nat /\ MaxHeight \in Nat /\ Len(chain) <= MaxHeight
      /\ tip \in 0 .. MaxHeight /\ tx \in TxRow \cup {NoTx}
      /\ fork \in {NoHeight} \cup 0 .. MaxHeight
    BY StatusAssumption DEF TypeOK
<1>2. CASE UNCHANGED vars
    BY <1>2 DEF vars, env, wallet, sync, EvidenceInv, Bounds, Included
<1>3. CASE Mining
    BY <1>1, <1>3, MiningExtends, EvidenceOnExtension
<1>4. CASE Reorganising
    BY <1>4, ReorgExtends, EvidenceOnExtension
<1>5. CASE UpdateChainTip
  <2>1. tip' = Len(chain) /\ UNCHANGED << chain, including, fork, tx >>
    BY <1>5 DEF UpdateChainTip, env
  <2>. QED BY <1>1, <2>1 DEF EvidenceInv, Bounds, Included
<1>6. CASE \E s, e \in Heights : PutBlocks(s, e) /\ Scanned(s, e)
    BY <1>6, EvidenceKept DEF PutBlocks, Scanned
<1>7. CASE Observed
    BY <1>7, EvidenceKept DEF Observed, sync
<1>8. CASE \E target \in 1 .. MaxHeight + 1 : Created(target)
  <2>1. PICK target \in 1 .. MaxHeight + 1 : Created(target)
    BY <1>8
  <2>2. /\ UNCHANGED << chain, including, fork, tip >> /\ ~exists
        /\ tx' \in TxRow /\ tx'.observed <= tip
    BY <2>1 DEF Created, sync
  <2>3. including = {}
    BY <2>2 DEF ChainInv
  <2>4. tx'.observed \in 0 .. MaxHeight + 1
    BY <2>2, RowFields, Zenon
  <2>5. tx'.observed <= Len(chain)
    BY <1>1, <2>2, <2>4 DEF EvidenceInv
  <2>. QED BY <2>2, <2>3, <2>5 DEF EvidenceInv, Bounds, Included
<1>9. CASE \E floor \in 0 .. MaxHeight : Backward(floor)
  <2>1. PICK floor \in 0 .. MaxHeight : Backward(floor)
    BY <1>9
  <2>2. /\ UNCHANGED << chain, including >> /\ fork' = RewoundFork(floor)
        /\ tip' \in 0 .. MaxHeight /\ tip' <= tip
        /\ tx' \in TxRow \cup {NoTx} /\ tx'.known = tx.known
        /\ tx.known => /\ tx'.target = tx.target
                       /\ tx'.observed <= tx.observed
                       /\ tx.target # NoHeight => tx'.observed <= floor
    BY <2>1 DEF Backward, WentBack, env
  <2>3. tip' <= Len(chain')
    BY <1>1, <2>2, SMTT(40) DEF EvidenceInv
  <2>4. SUFFICES ASSUME tx.known, tx.target # NoHeight
                 PROVE  /\ tx'.target <= Len(chain) \/ tx'.observed <= Len(chain)
                        /\ \A h \in Heights : Included(h) =>
                              \/ tx'.target <= h \/ tx'.observed <= h
                              \/ fork' # NoHeight /\ fork' < h
    BY <2>2, <2>3 DEF EvidenceInv, Bounds, Included
  <2>5. tx' \in TxRow
    BY <2>2, <2>4, KnownRow, Zenon
  <2>6. \A h \in Int : Bounds(h) => tx'.target <= h \/ tx'.observed <= h
    BY <2>2, <2>4, <2>5, BoundsKept
  <2>7. tx'.observed \in 0 .. MaxHeight + 1
    BY <2>5, RowFields, Zenon
  <2>8. ASSUME NEW h \in Heights, Included(h)
        PROVE  \/ tx'.target <= h \/ tx'.observed <= h
               \/ fork' # NoHeight /\ fork' < h
    <3>1. h \in Int
      BY DEF Heights
    <3>2. Bounds(h) \/ (fork # NoHeight /\ fork < h)
      BY <2>4, <2>8 DEF EvidenceInv
    <3>3. CASE Bounds(h)
      BY <2>6, <3>1, <3>3
    <3>4. CASE fork # NoHeight /\ fork < h /\ floor <= fork
      BY <1>1, <2>2, <2>4, <2>7, <3>1, <3>4, SMTT(40)
    <3>5. CASE fork # NoHeight /\ fork < h /\ ~(floor <= fork)
      BY <2>2, <3>5 DEF RewoundFork
    <3>. QED BY <3>2, <3>3, <3>4, <3>5
  <2>9. Bounds(Len(chain)) /\ Len(chain) \in Int
    BY <1>1, <2>4 DEF EvidenceInv
  <2>. QED BY <2>6, <2>8, <2>9
<1>. QED BY <1>2, <1>3, <1>4, <1>5, <1>6, <1>7, <1>8, <1>9, StepEffect, SMTT(40) DEF Effect

(* The bound handed to the private verifier of an absence is conservative  *)
(* whenever the wallet has rewound below every reorganisation, whatever    *)
(* was scanned, answered, created and rewound before.                      *)
THEOREM EvidenceIsConservative == Spec => []EvidenceConservative
<1>1. Init => ChainInv /\ EvidenceInv
    BY DEF Init, ChainInv, EvidenceInv, NoTx
<1>2. TypeOK /\ ReceiptOfKnown /\ ChainInv /\ EvidenceInv /\ [Next]_vars
        => ChainInv' /\ EvidenceInv'
    BY StepKeepsChainInv, StepKeepsEvidence
<1>3. TypeOK /\ EvidenceInv => EvidenceConservative
    BY EvidenceBounds
<1>. QED BY <1>1, <1>2, <1>3, StatusTypeCorrect, PTL DEF Spec


-----------------------------------------------------------------------------
(* The mined height.  A block has one height on every branch, a stored     *)
(* block and a receipt name blocks that were mined, and what they say of   *)
(* the transaction is true while their block is on the chain.              *)

Names(b, height, truth) ==
    /\ b <= minted
    /\ \A k \in 1 .. Len(chain) :
            b = chain[k] => k = height /\ (truth => b \in including)

HasHeight == tx.known /\ tx.mined # NoHeight

MinedInv ==
    /\ \A g \in Heights : Names(blocks[g], g, FALSE)
    /\ HasHeight => /\ tx.mined \in Heights /\ blocks[tx.mined] # NoBlock
                    /\ Names(blocks[tx.mined], tx.mined, TRUE)
    /\ receipt.held => Names(receipt.block, receipt.height, TRUE)

LEMMA MinedMatches ==
    ASSUME TypeOK, MinedInv
    PROVE  MinedMatchesBlock
BY DEF MinedInv, HasHeight, Names, MinedMatchesBlock, OnChain

(* What is said of a block stays true on a longer or a replaced branch.    *)
LEMMA NamesKept ==
    ASSUME TypeOK, NEW f \in 0 .. MaxHeight, Extends(f),
           NEW b \in Int, NEW height, NEW truth \in BOOLEAN, Names(b, height, truth)
    PROVE  /\ b <= minted'
           /\ \A k \in 1 .. Len(chain') :
                b = chain'[k] => k = height /\ (truth => b \in including')
<1>1. /\ Len(chain) \in Nat /\ minted \in Nat
    BY DEF TypeOK
<1>2. /\ f \in 0 .. Len(chain) /\ Len(chain') \in Nat /\ Len(chain) <= Len(chain')
      /\ \A h \in 1 .. f : chain'[h] = chain[h]
      /\ \A h \in 1 .. Len(chain') : h > f => chain'[h] = minted + h - f
      /\ minted' = minted + Len(chain') - f
      /\ including \subseteq including'
    BY DEF Extends
<1>3. b <= minted
    BY DEF Names
<1>4. ASSUME NEW k \in 1 .. Len(chain'), b = chain'[k]
      PROVE  k = height /\ (truth => b \in including')
  <2>1. k <= f
    BY <1>1, <1>2, <1>3, <1>4
  <2>2. k \in 1 .. Len(chain) /\ b = chain[k]
    BY <1>1, <1>2, <1>4, <2>1
  <2>. QED BY <1>2, <2>2 DEF Names
<1>. QED BY <1>1, <1>2, <1>3, <1>4

LEMMA StepKeepsMined ==
    ASSUME TypeOK, ReceiptOfKnown, ChainInv, MinedInv, AnswersAhead = FALSE,
           [Next]_vars
    PROVE  MinedInv'
<1>1. /\ Len(chain) \in Nat /\ MaxHeight \in Nat /\ minted \in Nat
      /\ MaxBlocks \in Nat /\ Len(chain) <= MaxHeight
      /\ chain \in Seq(BlockNames)
      /\ blocks \in [Heights -> BlockNames \cup {NoBlock}]
      /\ tx \in TxRow \cup {NoTx} /\ receipt \in Receipt \cup {NoReceipt}
    BY StatusAssumption DEF TypeOK
<1>2. /\ BlockNames \cup {NoBlock} \subseteq Int /\ NoBlock \notin BlockNames
      /\ NoBlock <= minted
    BY <1>1 DEF BlockNames, NoBlock
<1>3. \A k \in 1 .. Len(chain) :
        /\ chain[k] \in BlockNames /\ chain[k] \in Int /\ chain[k] # NoBlock
        /\ k \in Heights
    BY <1>1, <1>2 DEF Heights
<1>4. \A g, k \in 1 .. Len(chain) : chain[g] = chain[k] => g = k
  <2>1. SUFFICES ASSUME NEW g \in 1 .. Len(chain), NEW k \in 1 .. Len(chain), g # k
                 PROVE  chain[g] # chain[k]
    OBVIOUS
  <2>2. g < k \/ k < g
    BY <2>1
  <2>3. chain[g] < chain[k] \/ chain[k] < chain[g]
    BY <2>2 DEF ChainInv
  <2>. QED BY <1>3, <2>3
<1>5. receipt.held => receipt.block \in Int
  <2>1. receipt.held => receipt \in Receipt
    BY <1>1 DEF NoReceipt
  <2>. QED BY <1>2, <2>1, ReceiptFields, Zenon
<1>6. ASSUME NEW f \in 0 .. MaxHeight, Extends(f)
      PROVE  MinedInv'
  <2>1. UNCHANGED << blocks, tx, receipt >>
    BY <1>6 DEF Extends, wallet, sync
  <2>2. \A g \in Heights : Names(blocks[g], g, FALSE)'
    <3>1. SUFFICES ASSUME NEW g \in Heights PROVE Names(blocks[g], g, FALSE)'
      BY Zenon
    <3>2. blocks[g] \in Int /\ Names(blocks[g], g, FALSE)
      BY <1>1, <1>2, Zenon DEF MinedInv
    <3>3. /\ blocks[g] <= minted'
          /\ \A k \in 1 .. Len(chain') :
                blocks[g] = chain'[k] => k = g /\ (FALSE => blocks[g] \in including')
      BY <1>6, <3>2, NamesKept, ZenonT(40)
    <3>. QED BY <2>1, <3>3 DEF Names
  <2>3. ASSUME HasHeight
        PROVE  /\ tx.mined \in Heights /\ blocks[tx.mined] # NoBlock
               /\ Names(blocks[tx.mined], tx.mined, TRUE)'
    <3>1. /\ tx.mined \in Heights /\ blocks[tx.mined] # NoBlock
          /\ blocks[tx.mined] \in Int /\ Names(blocks[tx.mined], tx.mined, TRUE)
      BY <1>1, <1>2, <2>3, Zenon DEF MinedInv
    <3>2. /\ blocks[tx.mined] <= minted'
          /\ \A k \in 1 .. Len(chain') :
                blocks[tx.mined] = chain'[k] =>
                    k = tx.mined /\ (TRUE => blocks[tx.mined] \in including')
      BY <1>6, <3>1, NamesKept, Zenon
    <3>. QED BY <2>1, <3>1, <3>2 DEF Names
  <2>4. ASSUME receipt.held PROVE Names(receipt.block, receipt.height, TRUE)'
    <3>1. receipt.block \in Int /\ Names(receipt.block, receipt.height, TRUE)
      BY <1>5, <2>4, Zenon DEF MinedInv
    <3>2. /\ receipt.block <= minted'
          /\ \A k \in 1 .. Len(chain') :
                receipt.block = chain'[k] =>
                    k = receipt.height /\ (TRUE => receipt.block \in including')
      BY <1>6, <3>1, NamesKept, Zenon
    <3>. QED BY <2>1, <3>2 DEF Names
  <2>. QED BY <2>1, <2>2, <2>3, <2>4, Zenon DEF MinedInv, HasHeight
<1>7. CASE Mining
    BY <1>1, <1>6, <1>7, MiningExtends
<1>8. CASE Reorganising
    BY <1>6, <1>8, ReorgExtends, SMTT(40)
<1>9. CASE UNCHANGED << chain, minted, including, blocks, tx, receipt >>
    BY <1>9, Zenon DEF MinedInv, Names, HasHeight
<1>10. CASE \E s, e \in Heights : PutBlocks(s, e) /\ Scanned(s, e)
  <2>1. PICK s \in Heights, e \in Heights : PutBlocks(s, e) /\ Scanned(s, e)
    BY <1>10
  <2>2. /\ e <= Len(chain) /\ Connects(s, e)
        /\ blocks' = [h \in Heights |-> IF h \in s .. e THEN chain[h] ELSE blocks[h]]
        /\ UNCHANGED << chain, minted, including >>
    BY <2>1 DEF PutBlocks, env
  <2>3. \A g \in s .. e : g \in 1 .. Len(chain) /\ blocks'[g] = chain[g]
    BY <1>1, <2>2, SMTT(40) DEF Heights
  <2>4. \A g \in Heights : g \notin s .. e => blocks'[g] = blocks[g]
    BY <2>2
  <2>5. \A g \in Heights : Names(blocks[g], g, FALSE)'
    <3>1. SUFFICES ASSUME NEW g \in Heights PROVE Names(blocks'[g], g, FALSE)
      BY <2>2 DEF Names
    <3>2. CASE g \in s .. e
      BY <1>4, <2>3, <3>2 DEF Names, ChainInv
    <3>3. CASE g \notin s .. e
      BY <2>4, <3>3, Zenon DEF MinedInv
    <3>. QED BY <3>2, <3>3, Zenon
  <2>6. ASSUME HasHeight'
        PROVE  /\ tx'.mined \in Heights /\ blocks'[tx'.mined] # NoBlock
               /\ Names(blocks'[tx'.mined], tx'.mined, TRUE)
    <3>1. \/ HasHeight /\ tx'.mined = tx.mined
          \/ tx'.mined \in s .. e /\ Included(tx'.mined)
          \/ /\ receipt.held /\ receipt.height \in s .. e
             /\ tx'.mined = receipt.height
             /\ receipt.block = chain[receipt.height]
      BY <2>1, <2>6 DEF Scanned, HasHeight
    <3>2. CASE HasHeight /\ tx'.mined = tx.mined
      <4>1. /\ tx.mined \in Heights /\ blocks[tx.mined] # NoBlock
            /\ Names(blocks[tx.mined], tx.mined, TRUE)
        BY <3>2, ZenonT(40) DEF MinedInv
      <4>2. blocks'[tx.mined] = blocks[tx.mined]
        BY <2>2, <2>3, <2>4, <4>1 DEF Connects
      <4>. QED BY <3>2, <4>1, <4>2, Zenon
    <3>3. CASE tx'.mined \in s .. e /\ chain[tx'.mined] \in including
      <4>1. tx'.mined \in 1 .. Len(chain) /\ blocks'[tx'.mined] = chain[tx'.mined]
        BY <2>3, <3>3, SMTT(40)
      <4>. QED BY <1>3, <1>4, <3>3, <4>1, SMTT(40) DEF Names, ChainInv
    <3>4. CASE /\ receipt.held /\ receipt.height \in s .. e
               /\ tx'.mined = receipt.height
               /\ receipt.block = chain[receipt.height]
      <4>1. chain[tx'.mined] \in including
        BY <2>3, <3>4 DEF MinedInv, Names
      <4>. QED BY <3>3, <3>4, <4>1, Zenon
    <3>. QED BY <3>1, <3>2, <3>3, <3>4, Zenon DEF Included
  <2>7. receipt'.held => Names(receipt'.block, receipt'.height, TRUE)
    BY <2>1, ZenonT(40) DEF Scanned, MinedInv
  <2>. QED BY <2>2, <2>5, <2>6, <2>7 DEF MinedInv, Names
<1>11. CASE \E floor \in 0 .. MaxHeight : Backward(floor)
  <2>1. PICK floor \in 0 .. MaxHeight : Backward(floor)
    BY <1>11
  <2>2. UNCHANGED << chain, minted, including >>
    BY <2>1 DEF Backward, env
  <2>3. \A g \in Heights : Names(blocks'[g], g, FALSE)
    <3>1. SUFFICES ASSUME NEW g \in Heights PROVE Names(blocks'[g], g, FALSE)
      BY Zenon
    <3>2. blocks'[g] \in {blocks[g], NoBlock}
      BY <2>1 DEF Backward, WentBack
    <3>3. Names(NoBlock, g, FALSE)
      BY <1>2, <1>3, SMTT(40) DEF Names
    <3>. QED BY <3>2, <3>3, Zenon DEF MinedInv
  <2>4. ASSUME HasHeight'
        PROVE  /\ tx'.mined \in Heights /\ blocks'[tx'.mined] # NoBlock
               /\ Names(blocks'[tx'.mined], tx'.mined, TRUE)
    <3>1. HasHeight /\ tx'.mined = tx.mined /\ blocks'[tx.mined] = blocks[tx.mined]
      BY <2>1, <2>4 DEF Backward, WentBack, HasHeight
    <3>. QED BY <3>1, ZenonT(40) DEF MinedInv
  <2>5. ASSUME receipt'.held PROVE Names(receipt'.block, receipt'.height, TRUE)
    <3>1. CASE /\ receipt.held /\ receipt'.height = receipt.height
               /\ receipt'.block = receipt.block
      BY <3>1, Zenon DEF MinedInv
    <3>2. CASE /\ tx.known /\ tx.mined \in Heights
               /\ receipt'.height = tx.mined /\ receipt'.block = blocks[tx.mined]
      <4>1. HasHeight
        BY <1>1, <3>2 DEF HasHeight, Heights, NoHeight
      <4>. QED BY <3>2, <4>1, ZenonT(40) DEF MinedInv
    <3>. QED BY <2>1, <2>5, <3>1, <3>2, Zenon DEF Backward, WentBack
  <2>. QED BY <2>2, <2>3, <2>4, <2>5 DEF MinedInv, Names
<1>12. CASE Observed
  <2>1. /\ UNCHANGED << chain, minted, including, blocks >>
        /\ receipt'.held => receipt' = receipt
    BY <1>12, SMTT(40) DEF Observed, env, sync
  <2>2. ASSUME HasHeight'
        PROVE  /\ tx'.mined \in Heights /\ blocks[tx'.mined] # NoBlock
               /\ Names(blocks[tx'.mined], tx'.mined, TRUE)
    <3>1. CASE HasHeight /\ tx'.mined = tx.mined
      BY <3>1, Zenon DEF MinedInv
    <3>2. CASE /\ tx'.mined \in Heights /\ Included(tx'.mined)
               /\ blocks[tx'.mined] # NoBlock
      <4>1. Names(blocks[tx'.mined], tx'.mined, FALSE)
        BY <3>2, Zenon DEF MinedInv
      <4>. QED BY <3>2, <4>1 DEF Names, Included
    <3>. QED BY <1>12, <2>2, <3>1, <3>2, Zenon DEF Observed, HasHeight
  <2>. QED BY <2>1, <2>2 DEF MinedInv, Names
<1>13. CASE \E target \in 1 .. MaxHeight + 1 : Created(target)
    BY <1>13, SMTT(40) DEF Created, sync, MinedInv, Names, HasHeight
<1>14. CASE UNCHANGED vars \/ UpdateChainTip
    BY <1>9, <1>14 DEF vars, env, wallet, sync, UpdateChainTip
<1>. QED BY <1>7, <1>8, <1>10, <1>11, <1>12, <1>13, <1>14, StepEffect, SMTT(40) DEF Effect

(* When answers are only taken about blocks that the wallet has scanned,   *)
(* no rewind, restored receipt, scan or answer binds the transaction to a  *)
(* block of the chain that does not include it.                            *)
THEOREM MinedHeightsMatch ==
    ASSUME AnswersAhead = FALSE
    PROVE  Spec => []MinedMatchesBlock
<1>1. Init => ChainInv /\ MinedInv
  <2> SUFFICES ASSUME Init PROVE ChainInv /\ MinedInv
    OBVIOUS
  <2>1. Len(chain) = 0 /\ minted = 0 /\ including = {} /\ ~tx.known /\ ~receipt.held
    BY DEF Init, NoTx, NoReceipt
  <2>2. \A g \in Heights : blocks[g] = NoBlock
    BY DEF Init
  <2>. QED BY <2>1, <2>2 DEF ChainInv, MinedInv, Names, HasHeight, NoBlock
<1>2. TypeOK /\ ReceiptOfKnown /\ ChainInv /\ MinedInv /\ [Next]_vars
        => ChainInv' /\ MinedInv'
    BY StepKeepsChainInv, StepKeepsMined
<1>3. TypeOK /\ MinedInv => MinedMatchesBlock
    BY MinedMatches
<1>. QED BY <1>1, <1>2, <1>3, StatusTypeCorrect, PTL DEF Spec

-----------------------------------------------------------------------------
(* The CHECK constraints of table transactions on one row.                 *)

RowConsistent(row) ==
    row.known /\ row.mined # NoHeight =>
        row.observed <= row.mined /\ row.confirmed = NoHeight

LEMMA MinedAtConsistent ==
    ASSUME NEW row \in TxRow, NEW h \in Heights
    PROVE  /\ RowConsistent(MinedAt(row, h))
           /\ MinedAt(row, h).observed <= h
           /\ MinedAt(row, h).confirmed = NoHeight
<1>1. row.observed \in 0 .. MaxHeight + 1 /\ MaxHeight \in Nat
    BY RowFields, StatusAssumption, Zenon
<1>2. Lower(row.observed, h) <= h
    BY <1>1 DEF Lower, Heights
<1> HIDE DEF Lower
<1>3. /\ MinedAt(row, h).mined = h
      /\ MinedAt(row, h).confirmed = NoHeight
      /\ MinedAt(row, h).observed = Lower(row.observed, h)
    BY DEF MinedAt, TxRow
<1>. QED BY <1>2, <1>3 DEF RowConsistent

LEMMA RecordMinedConsistent ==
    ASSUME NEW row \in TxRow, NEW h \in Heights
    PROVE  /\ RowConsistent(RecordMined(row, h))
           /\ RecordMined(row, h).observed <= h
           /\ RecordMined(row, h).confirmed = NoHeight
<1> DEFINE old == IF row.mined = NoHeight THEN h ELSE row.mined
           mid == [row EXCEPT !.observed = Lower(@, old)]
<1>1. /\ row.observed \in 0 .. MaxHeight + 1 /\ MaxHeight \in Nat
      /\ old \in Heights
    BY RowFields, StatusAssumption, Zenon
<1>2. Lower(row.observed, old) \in 0 .. MaxHeight + 1
    BY <1>1 DEF Lower, Heights
<1> HIDE DEF old, Lower
<1>3. mid \in TxRow
    BY <1>2, ZenonT(40) DEF TxRow
<1>4. RecordMined(row, h) = MinedAt(mid, h)
    BY DEF RecordMined, old
<1> HIDE DEF mid
<1>. QED BY <1>3, <1>4, MinedAtConsistent

(* A payload, a rewind and lowered creation evidence keep a consistent row *)
(* consistent: they lower the first observation or un-mine.                *)
LEMMA PayloadConsistent ==
    ASSUME NEW row \in TxRow, NEW o \in 0 .. MaxHeight + 1, RowConsistent(row)
    PROVE  RowConsistent(WithPayload(row, o))
<1>1. /\ row.observed \in 0 .. MaxHeight + 1 /\ MaxHeight \in Nat
      /\ row.mined \in {NoHeight} \cup Heights /\ row.known
    BY RowFields, StatusAssumption, Zenon
<1>2. /\ WithPayload(row, o) \in TxRow
      /\ WithPayload(row, o).mined = row.mined
      /\ WithPayload(row, o).observed <= row.observed
    BY WithPayloadRow
<1>3. WithPayload(row, o).observed \in 0 .. MaxHeight + 1
    BY <1>2, RowFields, ZenonT(40)
<1>4. WithPayload(row, o).confirmed = row.confirmed
    BY DEF WithPayload, TxRow
<1>. QED BY <1>1, <1>2, <1>3, <1>4 DEF RowConsistent, Heights

LEMMA UnminedConsistent ==
    ASSUME NEW h \in 0 .. MaxHeight, tx \in TxRow \cup {NoTx}, RowConsistent(tx)
    PROVE  RowConsistent(UnminedRow(h))
<1>1. CASE tx.known /\ tx.mined > h
  <2>1. tx \in TxRow
    BY <1>1, KnownRow
  <2>2. UnminedRow(h).mined = NoHeight
    BY <1>1, <2>1, UnminedRowFields, ZenonT(40)
  <2>. QED BY <2>2 DEF RowConsistent
<1>2. CASE ~(tx.known /\ tx.mined > h)
  <2>1. UnminedRow(h) = tx
    BY <1>2 DEF UnminedRow
  <2>. QED BY <2>1
<1>. QED BY <1>1, <1>2

LEMMA LoweredConsistent ==
    ASSUME NEW floor \in 0 .. MaxHeight, NEW row \in TxRow \cup {NoTx},
           RowConsistent(row)
    PROVE  RowConsistent(LowerCreationEvidence(row, floor))
<1> DEFINE new == LowerCreationEvidence(row, floor)
<1>1. CASE ~row.known
  <2>1. new = row
    BY <1>1 DEF LowerCreationEvidence
  <2>. QED BY <2>1
<1>2. CASE row.known
  <2>1. row \in TxRow /\ MaxHeight \in Nat
    BY <1>2, KnownRow, StatusAssumption
  <2>2. /\ new \in TxRow \cup {NoTx} /\ new.known = row.known
        /\ new.mined = row.mined /\ new.observed <= row.observed
    BY <1>2, LoweredRowFields, Zenon
  <2>3. new.confirmed = row.confirmed
    BY <2>1 DEF LowerCreationEvidence, TxRow
  <2>4. new \in TxRow
    BY <1>2, <2>2, KnownRow, Zenon
  <2> HIDE DEF new
  <2>5. /\ row.observed \in 0 .. MaxHeight + 1 /\ new.observed \in 0 .. MaxHeight + 1
        /\ row.mined \in {NoHeight} \cup Heights
    BY <2>1, <2>4, RowFields, Zenon
  <2>6. RowConsistent(new)
    BY <1>2, <2>1, <2>2, <2>3, <2>5 DEF RowConsistent, Heights
  <2>. QED BY <2>6 DEF new
<1>. QED BY <1>1, <1>2

LEMMA NotedConsistent ==
    ASSUME NEW row \in TxRow, NEW b \in BOOLEAN, RowConsistent(row)
    PROVE  RowConsistent([row EXCEPT !.noted = b])
<1> DEFINE new == [row EXCEPT !.noted = b]
<1>1. /\ new.known = row.known /\ new.mined = row.mined
      /\ new.observed = row.observed /\ new.confirmed = row.confirmed
    BY DEF TxRow
<1> HIDE DEF new
<1>2. RowConsistent(new)
    BY <1>1 DEF RowConsistent
<1>. QED BY <1>2 DEF new

LEMMA UpsertedConsistent ==
    ASSUME NEW o \in 0 .. MaxHeight + 1, tx \in TxRow \cup {NoTx}, RowConsistent(tx)
    PROVE  RowConsistent(Row(o))
<1>1. CASE tx.known
    BY <1>1, UpsertedRow
<1>2. CASE ~tx.known
  <2>1. Row(o).mined = NoHeight
    BY <1>2, UpsertedRow, Zenon
  <2>. QED BY <2>1, SMTT(40) DEF RowConsistent
<1>. QED BY <1>1, <1>2

LEMMA ScannedConsistent ==
    ASSUME TypeOK, NEW s \in Heights, NEW e \in Heights, RowConsistent(tx)
    PROVE  RowConsistent(ScannedRow(s, e))
<1>1. tx \in TxRow \cup {NoTx} /\ MaxHeight \in Nat
    BY StatusAssumption DEF TypeOK
<1>2. CASE viewable /\ \E h \in s .. e : Included(h)
  <2> DEFINE h == CHOOSE h \in s .. e : Included(h)
  <2>1. h \in s .. e /\ Included(h)
    BY <1>2
  <2> HIDE DEF h
  <2>2. h \in Heights /\ h \in 0 .. MaxHeight + 1
    BY <1>1, <2>1 DEF Heights
  <2>3. Row(h) \in TxRow
    BY <1>1, <2>2, UpsertedRow, Zenon
  <2>4. MinedAt(Row(h), h) \in TxRow /\ RowConsistent(MinedAt(Row(h), h))
    BY <2>2, <2>3, MinedAtRow, MinedAtConsistent
  <2>5. ScannedRow(s, e) = [MinedAt(Row(h), h) EXCEPT !.noted = TRUE]
    BY <1>2 DEF ScannedRow, h
  <2>. QED BY <2>4, <2>5, NotedConsistent, Zenon
<1>3. CASE ~(viewable /\ \E h \in s .. e : Included(h))
    BY <1>3 DEF ScannedRow
<1>. QED BY <1>2, <1>3

LEMMA PutBlocksConsistent ==
    ASSUME TypeOK, ReceiptOfKnown, RowConsistent(tx),
           NEW s \in Heights, NEW e \in Heights, PutBlocks(s, e)
    PROVE  RowConsistent(tx')
<1> DEFINE row == ScannedRow(s, e)
           due == receipt.held /\ receipt.height \in s .. e
<1>1. RowConsistent(row)
    BY ScannedConsistent
<1>2. /\ tx \in TxRow \cup {NoTx} /\ receipt \in Receipt \cup {NoReceipt}
    BY DEF TypeOK
<1>3. row = tx \/ row \in TxRow
    BY ScannedRowFields, Zenon
<1>4. \/ tx' = row
      \/ due /\ tx' = RecordMined(row, receipt.height)
    BY DEF PutBlocks
<1>5. CASE tx' = row
    BY <1>1, <1>5
<1>6. CASE due /\ tx' = RecordMined(row, receipt.height)
  <2>1. receipt \in Receipt /\ tx.known
    BY <1>2, <1>6 DEF NoReceipt, ReceiptOfKnown
  <2>2. receipt.height \in Heights /\ row \in TxRow
    BY <1>2, <1>3, <2>1, ReceiptFields, KnownRow, Zenon
  <2> HIDE DEF row
  <2>. QED BY <1>6, <2>2, RecordMinedConsistent
<1>. QED BY <1>4, <1>5, <1>6

(* Each operation of the wallet writes a row that the table accepts.       *)
LEMMA GoingBackConsistent ==
    ASSUME TypeOK, RowConsistent(tx), GoingBack
    PROVE  RowConsistent(tx')
<1>1. tx \in TxRow \cup {NoTx}
    BY DEF TypeOK
<1>2. \E h, floor \in 0 .. MaxHeight :
        \/ tx' = LowerCreationEvidence(UnminedRow(h), floor)
        \/ tx' = LowerCreationEvidence(tx, floor)
  <2>1. CASE \E h \in 0 .. MaxHeight : Truncate(h)
    BY <2>1 DEF Truncate, TruncateToHeightInternal
  <2>2. CASE \E target, trunc \in 0 .. MaxHeight : RewindWallet(target, trunc)
    BY <2>2 DEF RewindWallet, TruncateToHeightInternal
  <2>. QED BY <2>1, <2>2 DEF GoingBack, Rewind, ImportAccount
<1>3. PICK h \in 0 .. MaxHeight, floor \in 0 .. MaxHeight :
        \/ tx' = LowerCreationEvidence(UnminedRow(h), floor)
        \/ tx' = LowerCreationEvidence(tx, floor)
    BY <1>2
<1>4. UnminedRow(h) \in TxRow \cup {NoTx} /\ RowConsistent(UnminedRow(h))
    BY <1>1, UnminedRowFields, UnminedConsistent
<1>. QED BY <1>1, <1>3, <1>4, LoweredConsistent

LEMMA AnsweringConsistent ==
    ASSUME TypeOK, RowConsistent(tx), Answering
    PROVE  RowConsistent(tx')
<1>1. tx \in TxRow
    BY KnownRow DEF TypeOK, Answering, SetStatusUnmined, SetStatusMined
<1>2. CASE SetStatusUnmined
  <2>1. CASE tx.mined = NoHeight
    <3>1. tx' = [tx EXCEPT !.confirmed = tip]
      BY <1>2, <2>1 DEF SetStatusUnmined
    <3>2. tx'.mined = NoHeight
      BY <1>1, <2>1, <3>1 DEF TxRow
    <3>. QED BY <3>2 DEF RowConsistent
  <2>2. CASE tx.mined # NoHeight
    <3>1. tx' = tx
      BY <1>2, <2>2 DEF SetStatusUnmined
    <3>. QED BY <3>1
  <2>. QED BY <2>1, <2>2
<1>3. CASE \E h \in Heights : SetStatusMined(h)
    BY <1>1, <1>3, RecordMinedConsistent DEF SetStatusMined
<1>. QED BY <1>2, <1>3 DEF Answering

LEMMA StoringConsistent ==
    ASSUME TypeOK, RowConsistent(tx), Storing
    PROVE  RowConsistent(tx')
<1>1. /\ tx \in TxRow \cup {NoTx} /\ MaxHeight \in Nat
      /\ tip \in 0 .. MaxHeight /\ viewable \in BOOLEAN
    BY StatusAssumption, SMTT(40) DEF TypeOK
<1>2. ASSUME NEW h \in Heights
      PROVE  h \in 0 .. MaxHeight + 1 /\ Row(h) \in TxRow
  <2>1. h \in 0 .. MaxHeight + 1
    BY <1>1 DEF Heights
  <2>. QED BY <1>1, <2>1, UpsertedRow, Zenon
<1>3. CASE \E h \in Heights : StoreMined(h)
  <2>1. PICK h \in Heights : StoreMined(h)
    BY <1>3
  <2>2. WithPayload(Row(h), h) \in TxRow
    BY <1>2, WithPayloadRow
  <2> DEFINE mid == RecordMined(WithPayload(Row(h), h), h)
  <2>3. mid \in TxRow /\ RowConsistent(mid)
    BY <2>2, RecordMinedRow, RecordMinedConsistent
  <2>4. tx' = [mid EXCEPT !.noted = @ \/ viewable]
    BY <2>1 DEF StoreMined
  <2> HIDE DEF mid
  <2>5. tx' = [mid EXCEPT !.noted = mid.noted \/ viewable]
    BY <2>4
  <2>. QED BY <2>3, <2>5, NotedConsistent, Zenon
<1>4. CASE \E h \in Heights : ReceiveUtxo(h)
  <2>1. PICK h \in Heights : ReceiveUtxo(h)
    BY <1>4
  <2> DEFINE mid == MinedAt(Row(h), h)
  <2>2. mid \in TxRow /\ mid.mined = h /\ mid.observed <= h /\ mid.confirmed = NoHeight
    BY <1>2, MinedAtRow, MinedAtConsistent
  <2>3. tx' = [mid EXCEPT !.observed = Lower(@, tip)]
    BY <2>1 DEF ReceiveUtxo
  <2> HIDE DEF mid
  <2>4. mid.observed \in 0 .. MaxHeight + 1
    BY <2>2, RowFields, Zenon
  <2>5. /\ tx'.mined = mid.mined /\ tx'.confirmed = mid.confirmed
        /\ tx'.observed = Lower(mid.observed, tip)
    BY <2>2, <2>3 DEF TxRow
  <2>6. Lower(mid.observed, tip) <= h
    BY <1>1, <2>2, <2>4 DEF Lower, Heights
  <2>. QED BY <2>2, <2>5, <2>6, SMTT(40) DEF RowConsistent
<1>5. CASE StoreUnmined
  <2>1. tip + 1 \in 0 .. MaxHeight + 1
    BY <1>1
  <2>2. Row(tip + 1) \in TxRow /\ RowConsistent(Row(tip + 1))
    BY <1>1, <2>1, UpsertedRow, UpsertedConsistent, Zenon
  <2> DEFINE mid == WithPayload(Row(tip + 1), tip + 1)
  <2>3. mid \in TxRow /\ RowConsistent(mid)
    BY <2>1, <2>2, WithPayloadRow, PayloadConsistent
  <2>4. tx' = [mid EXCEPT !.noted = @ \/ viewable]
    BY <1>5 DEF StoreUnmined
  <2> HIDE DEF mid
  <2>5. tx' = [mid EXCEPT !.noted = mid.noted \/ viewable]
    BY <2>4
  <2>. QED BY <2>3, <2>5, NotedConsistent, Zenon
<1>6. CASE \E target \in 1 .. MaxHeight + 1 : Create(target)
  <2>1. PICK target \in 1 .. MaxHeight + 1 : Create(target)
    BY <1>6
  <2>2. target \in 0 .. MaxHeight + 1
    BY <1>1
  <2> DEFINE mid == WithPayload(NewRow(target), target)
  <2>3. mid \in TxRow /\ mid.mined = NoHeight
    BY <2>2, NewRowFields, WithPayloadRow, ZenonT(40)
  <2>4. tx' = [mid EXCEPT !.target = target, !.observed = Lower(@, tip),
                          !.noted = viewable]
    BY <2>1 DEF Create
  <2> HIDE DEF mid
  <2>5. tx'.mined = NoHeight
    BY <2>3, <2>4 DEF TxRow
  <2>. QED BY <2>5 DEF RowConsistent
<1>. QED BY <1>3, <1>4, <1>5, <1>6, SMTT(40) DEF Storing

(* The CHECK constraints min_observed_consistency and                      *)
(* confirmed_unmined_consistency refuse no call: no sequence of scans,     *)
(* answers, payloads, imports and rewinds leaves a mined transaction first *)
(* observed above its block or confirmed as unmined.                       *)
THEOREM ConstraintsAlwaysHold == Spec => []ConstraintsHold
<1>1. Init => ConstraintsHold
    BY DEF Init, ConstraintsHold, NoTx
<1>2. TypeOK /\ ReceiptOfKnown /\ ConstraintsHold /\ [Next]_vars => ConstraintsHold'
  <2> SUFFICES ASSUME TypeOK, ReceiptOfKnown, RowConsistent(tx), [Next]_vars
               PROVE  RowConsistent(tx')
    BY DEF ConstraintsHold, RowConsistent
  <2>1. CASE UNCHANGED vars \/ Mining \/ Reorganising \/ UpdateChainTip
    <3>1. tx' = tx
      BY <2>1 DEF vars, wallet, Mining, MineBlock, Reorganising, Reorg,
                  UpdateChainTip
    <3>. QED BY <3>1
  <2>2. CASE Scanning
    BY <2>2, PutBlocksConsistent DEF Scanning
  <2>3. CASE GoingBack
    BY <2>3, GoingBackConsistent
  <2>4. CASE Answering
    BY <2>4, AnsweringConsistent
  <2>5. CASE Storing
    BY <2>5, StoringConsistent
  <2>. QED BY <2>1, <2>2, <2>3, <2>4, <2>5 DEF Next
<1>. QED BY <1>1, <1>2, StatusTypeCorrect, PTL DEF Spec

=============================================================================
