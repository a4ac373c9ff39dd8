------------------------------ MODULE TxStatus ------------------------------
(***************************************************************************)
(* What the wallet knows of one transaction: whether it is mined, which    *)
(* evidence of an earlier inclusion it keeps across a rewind, and whether  *)
(* it still owes the network a status query.  The rows of different        *)
(* transactions do not influence one another, so one is followed.          *)
(*                                                                         *)
(* The chain is the environment: blocks are mined and replaced, and may    *)
(* include the transaction.  Every action of the wallet is one call that   *)
(* the SQLite backend runs in one database transaction.                    *)
(***************************************************************************)
EXTENDS Integers, Sequences

CONSTANTS
    MaxHeight,          \* bound on the height of the chain
    MaxBlocks,          \* bound on the number of blocks ever mined
    PRUNING_DEPTH,      \* reorganisations never go deeper
    EXPIRY_DELTA,       \* default lifetime of a transaction
    Expiry,             \* the transaction's expiry height, 0 for never
    LateKey,            \* may an account that sees the transaction be imported?
    Outgoing,           \* does an outgoing viewing key decrypt one of its outputs?
    AnswersAhead        \* may an answer name a block that is not scanned yet?

ASSUME StatusAssumption ==
    /\ MaxHeight \in Nat
    /\ MaxBlocks \in Nat
    /\ PRUNING_DEPTH \in Nat \ {0}
    /\ EXPIRY_DELTA \in Nat
    /\ Expiry \in Nat
    /\ LateKey \in BOOLEAN
    /\ Outgoing \in BOOLEAN
    /\ AnswersAhead \in BOOLEAN

VARIABLES
    chain,      \* the blocks of the current chain, by height
    minted,     \* how many blocks were ever mined; also the last one's name
    including,  \* the blocks that include the transaction
    exists,     \* is the transaction known to the miners?
    fork,       \* the lowest replaced height the wallet has not rewound below
    tip,        \* the wallet's chain tip, from the end of its scan queue
    blocks,     \* table blocks: the block stored for a height
    scanned,    \* the heights that the scan queue holds as Scanned
    viewable,   \* can the wallet's accounts see a note or spend of it?
    tx,         \* its row in table transactions
    receipt,    \* its row in table tx_reconfirmation_receipts
    status      \* its Status row in table tx_retrieval_queue

env    == << chain, minted, including, exists >>
sync   == << tip, blocks, scanned >>
wallet == << sync, viewable, tx, receipt, status >>
vars   == << env, fork, wallet >>

Heights    == 1 .. MaxHeight
BlockNames == 1 .. MaxBlocks

NoHeight  == -1
NoBlock   == 0
NoTx      == [known |-> FALSE]
NoReceipt == [held |-> FALSE]

HeightOrNone == {NoHeight} \cup 0 .. MaxHeight + 1

TxRow ==
    [known     : {TRUE},
     mined     : {NoHeight} \cup Heights,  \* mined_height
     confirmed : HeightOrNone,             \* confirmed_unmined_at_height
     observed  : 0 .. MaxHeight + 1,       \* min_observed_height
     target    : HeightOrNone,             \* target_height: created by this wallet
     expiry    : {NoHeight, Expiry},
     noted     : BOOLEAN]                  \* a note or spend of ours is recorded

Receipt ==
    [held : {TRUE}, height : Heights, block : BlockNames, replaced : BOOLEAN]

TypeOK ==
    /\ chain \in Seq(BlockNames) /\ Len(chain) <= MaxHeight
    /\ minted \in 0 .. MaxBlocks
    /\ including \subseteq BlockNames
    /\ exists \in BOOLEAN
    /\ fork \in {NoHeight} \cup 0 .. MaxHeight
    /\ tip \in 0 .. MaxHeight
    /\ blocks \in [Heights -> BlockNames \cup {NoBlock}]
    /\ scanned \subseteq Heights
    /\ viewable \in BOOLEAN
    /\ tx \in TxRow \cup {NoTx}
    /\ receipt \in Receipt \cup {NoReceipt}
    /\ status \in {"none", "queued", "reconfirm"}

Lower(x, y)  == IF x < y THEN x ELSE y
Higher(x, y) == IF x < y THEN y ELSE x

OnChain(b)  == \E h \in 1 .. Len(chain) : chain[h] = b
Included(h) == h \in 1 .. Len(chain) /\ chain[h] \in including

Init ==
    /\ chain = << >> /\ minted = 0 /\ including = {} /\ exists \in BOOLEAN
    /\ fork = NoHeight
    /\ tip = 0
    /\ blocks = [h \in Heights |-> NoBlock]
    /\ scanned = {}
    /\ viewable \in BOOLEAN
    /\ tx = NoTx /\ receipt = NoReceipt /\ status = "none"

-----------------------------------------------------------------------------
(* The chain.  A block may include the transaction once on every branch    *)
(* and not past its expiry.                                                *)
MayInclude(h) == exists /\ (Expiry = 0 \/ h <= Expiry)

MineBlock(include) ==
    /\ minted < MaxBlocks /\ Len(chain) < MaxHeight
    /\ include => /\ MayInclude(Len(chain) + 1)
                  /\ \A h \in 1 .. Len(chain) : ~Included(h)
    /\ chain' = Append(chain, minted + 1)
    /\ minted' = minted + 1
    /\ including' = IF include THEN including \cup {minted + 1} ELSE including
    /\ UNCHANGED << exists, fork, wallet >>

(* The blocks above height f are replaced by as many new ones; the one at  *)
(* height at (or none) includes the transaction.                           *)
Reorg(f, at) ==
    /\ f < Len(chain) /\ Len(chain) - f <= PRUNING_DEPTH
    /\ minted + Len(chain) - f <= MaxBlocks
    /\ at # NoHeight => /\ f < at /\ at <= Len(chain) /\ MayInclude(at)
                        /\ \A h \in 1 .. f : ~Included(h)
    /\ chain' = [h \in 1 .. Len(chain) |->
                    IF h <= f THEN chain[h] ELSE minted + h - f]
    /\ minted' = minted + Len(chain) - f
    /\ including' = IF at = NoHeight THEN including
                    ELSE including \cup {minted + at - f}
    /\ fork' = IF fork = NoHeight THEN f ELSE Lower(fork, f)
    /\ UNCHANGED << exists, wallet >>

-----------------------------------------------------------------------------
(* Helpers on the wallet's rows.                                           *)

MaxScanned ==
    IF \A h \in Heights : blocks[h] = NoBlock THEN NoHeight
    ELSE CHOOSE h \in Heights :
            blocks[h] # NoBlock /\ \A g \in Heights : g > h => blocks[g] = NoBlock

(* fully_scanned_height, for an account whose birthday is height 1.        *)
FullyScanned ==
    IF 1 \notin scanned THEN NoHeight
    ELSE CHOOSE h \in scanned :
            1 .. h \subseteq scanned /\ h + 1 \notin scanned

(* UNOBSERVABLE_TRANSACTION: a scan of compact blocks cannot find it again. *)
Unobservable == tx.known /\ ~tx.noted

(* Fault: the height at which it was found unmined is kept.                *)
FaultyMinedAt(row, h) ==
    [row EXCEPT !.mined = h, !.observed = Lower(@, h)]

(* put_tx_meta and put_transparent_output, for a mined output.             *)
MinedAt(row, h) ==
    [row EXCEPT !.mined = h, !.confirmed = NoHeight, !.observed = Lower(@, h)]

(* record_mined_transaction also counts the mined height it replaces.      *)
RecordMined(row, h) ==
    MinedAt([row EXCEPT !.observed =
                Lower(@, IF row.mined = NoHeight THEN h ELSE row.mined)], h)

NewRow(observed) ==
    [known |-> TRUE, mined |-> NoHeight, confirmed |-> NoHeight,
     observed |-> observed, target |-> NoHeight, expiry |-> NoHeight,
     noted |-> FALSE]

Row(observed) == IF tx.known THEN tx ELSE NewRow(observed)

(* put_tx_data: the payload, which tells the expiry height.                *)
WithPayload(row, observed) ==
    [row EXCEPT !.expiry = Expiry, !.observed = Lower(@, observed)]

(* complete_observation: the receipt is superseded and the obligation is   *)
(* an ordinary one again.                                                  *)
Completed(s) == IF s = "reconfirm" THEN "queued" ELSE s

(* queue_tx_status leaves an existing row alone.                           *)
Queued(s) == IF s = "none" THEN "queued" ELSE s

-----------------------------------------------------------------------------
(* update_chain_tip: the queue is extended, never cut.                     *)
UpdateChainTip ==
    /\ MaxScanned <= Len(chain)
    /\ tip < Len(chain)
    /\ tip' = Len(chain)
    /\ UNCHANGED << env, fork, blocks, scanned, viewable, tx, receipt, status >>

(* put_blocks on the batch s .. e: refused when the block before it or a   *)
(* stored block differs.  The transaction is found if it is in the batch   *)
(* and the wallet can see it.                                              *)
Connects(s, e) ==
    /\ s > 1 => blocks[s - 1] \in {NoBlock, chain[s - 1]}
    /\ \A h \in s .. e : blocks[h] \in {NoBlock, chain[h]}

ScannedRow(s, e) ==
    IF viewable /\ \E h \in s .. e : Included(h)
    THEN LET h == CHOOSE h \in s .. e : Included(h)
         IN  [MinedAt(Row(h), h) EXCEPT !.noted = TRUE]
    ELSE tx

(* Fault: a receipt is honoured when its height is scanned, whatever block *)
(* is found there.                                                         *)
FaultyRestores(row) == row.mined = NoHeight

(* reconcile_scanned_blocks, after all rows of the batch are written.      *)
Restores(row) == row.mined = NoHeight /\ receipt.block = chain[receipt.height]

PutBlocks(s, e) ==
    LET row == ScannedRow(s, e)
        due == receipt.held /\ receipt.height \in s .. e
    IN  /\ s <= e /\ e <= Len(chain) /\ e <= tip
        /\ Connects(s, e)
        /\ blocks' = [h \in Heights |-> IF h \in s .. e THEN chain[h] ELSE blocks[h]]
        /\ scanned' = scanned \cup s .. e
        /\ \/ /\ ~due
              /\ tx' = row
              /\ UNCHANGED << receipt, status >>
           \/ /\ due /\ (row.mined # NoHeight \/ Restores(row))
              /\ tx' = IF row.mined # NoHeight THEN row
                       ELSE RecordMined(row, receipt.height)
              /\ receipt' = NoReceipt
              /\ status' = Completed(status)
           \/ /\ due /\ row.mined = NoHeight /\ ~Restores(row)
              /\ tx' = row
              /\ receipt' = [receipt EXCEPT !.replaced = TRUE]
              /\ UNCHANGED status
        /\ UNCHANGED << env, fork, tip, viewable >>

-----------------------------------------------------------------------------
(* truncate_to_height_internal, in the order of its statements: the status *)
(* obligation, the receipt, un-mining, then the creation evidence.         *)

(* Fault: an existing row is marked, a missing one is not inserted.        *)
FaultyRequeuedStatus(h) ==
    IF Unobservable /\ tx.mined > h /\ status # "none" THEN "reconfirm"
    ELSE status

RequeuedStatus(h) ==
    IF Unobservable /\ tx.mined > h THEN "reconfirm" ELSE status

(* Fault: receipts below the rescan floor are reset too.                   *)
FaultyResetValidation(r, floor) ==
    IF r.held THEN [r EXCEPT !.replaced = FALSE] ELSE r

ResetValidation(r, floor) ==
    IF r.held /\ r.height > floor THEN [r EXCEPT !.replaced = FALSE] ELSE r

ReceiptOf(h) ==
    [held |-> TRUE, height |-> h, block |-> blocks[h], replaced |-> FALSE]

(* Fault: the receipt is written where no block is stored.                 *)
FaultyUnjoinedReceipt(h) ==
    IF Unobservable /\ tx.mined > h THEN ReceiptOf(tx.mined) ELSE receipt

(* Fault: transactions that scanning finds again get a receipt too.        *)
FaultyCapturedReceipt(h) ==
    IF tx.known /\ tx.mined > h
    THEN IF blocks[tx.mined] = NoBlock THEN NoReceipt ELSE ReceiptOf(tx.mined)
    ELSE receipt

CapturedReceipt(h) ==
    IF Unobservable /\ tx.mined > h
    THEN IF blocks[tx.mined] = NoBlock THEN NoReceipt ELSE ReceiptOf(tx.mined)
    ELSE receipt

UnminedRow(h) ==
    IF tx.known /\ tx.mined > h
    THEN [tx EXCEPT !.mined = NoHeight, !.confirmed = NoHeight] ELSE tx

(* Fault: only the evidence of a transaction that is mined is lowered.     *)
FaultyLowerCreationEvidence(row, floor) ==
    IF row.known /\ row.target # NoHeight /\ row.mined > floor
    THEN [row EXCEPT !.observed = floor] ELSE row

LowerCreationEvidence(row, floor) ==
    IF row.known /\ row.target # NoHeight /\ row.observed > floor
    THEN [row EXCEPT !.observed = floor] ELSE row

TruncateToHeightInternal(h, floor) ==
    /\ status' = RequeuedStatus(h)
    /\ receipt' = ResetValidation(CapturedReceipt(h), floor)
    /\ tx' = LowerCreationEvidence(UnminedRow(h), floor)
    /\ blocks' = [g \in Heights |-> IF g <= h THEN blocks[g] ELSE NoBlock]

RewoundFork(floor) == IF floor <= fork THEN NoHeight ELSE fork

(* truncate_to_height and truncate_to_chain_state.                         *)
Truncate(h) ==
    /\ TruncateToHeightInternal(h, h)
    /\ scanned' = scanned \cap 1 .. h
    /\ tip' = Lower(tip, h)
    /\ fork' = RewoundFork(h)
    /\ UNCHANGED << env, viewable >>

(* rewind_to_chain_state: the data is truncated at a height trunc in the   *)
(* pruning window, every height above the target is scanned again.         *)
RewindWallet(target, trunc) ==
    /\ \/ /\ target < MaxScanned
          /\ target <= trunc
          /\ Higher(tip, MaxScanned) - (PRUNING_DEPTH - 1) <= trunc
          /\ TruncateToHeightInternal(trunc, target)
       \/ /\ target >= MaxScanned /\ trunc = target
          /\ tx' = LowerCreationEvidence(tx, target)
          /\ receipt' = ResetValidation(receipt, target)
          /\ UNCHANGED << blocks, status >>
    /\ scanned' = scanned \cap 1 .. target
    /\ fork' = RewoundFork(target)
    /\ UNCHANGED << env, tip >>

Rewind(target, trunc) ==
    /\ RewindWallet(target, trunc)
    /\ UNCHANGED viewable

(* import_account: a rewind to the block before the birthday.              *)
ImportAccount(target, trunc) ==
    /\ LateKey /\ ~viewable
    /\ RewindWallet(target, trunc)
    /\ viewable' = TRUE

-----------------------------------------------------------------------------
(* Answers about the transaction.  They are true of the chain when they    *)
(* are applied.                                                            *)
AnswerMined(h) == Included(h) /\ (AnswersAhead \/ blocks[h] # NoBlock)
AnswerAbsent   == \A h \in 1 .. Len(chain) : ~Included(h)

(* The CHECK constraint height_consistency of table transactions: a row    *)
(* refers to the block stored at its mined height, and a call that moves   *)
(* the height alone is refused and rolled back.                            *)
HeightConsistent(h) ==
    tx.known /\ tx.mined # NoHeight /\ blocks[tx.mined] # NoBlock => h = tx.mined

(* The rule for keeping an unmined transaction's status request.           *)
Undecided(row) ==
    \/ row.expiry = 0
    \/ row.expiry > 0 /\ row.confirmed < row.expiry
    \/ /\ row.expiry = NoHeight
       /\ row.confirmed < (IF row.target # NoHeight THEN row.target
                           ELSE row.observed) + PRUNING_DEPTH + EXPIRY_DELTA

(* set_transaction_status with TxidNotRecognized or NotInMainChain.        *)
SetStatusUnmined ==
    LET row == IF tx.mined = NoHeight THEN [tx EXCEPT !.confirmed = tip] ELSE tx
    IN  /\ tx.known /\ AnswerAbsent
        /\ tx' = row
        /\ receipt' = NoReceipt
        /\ status' = IF row.mined = NoHeight /\ Undecided(row)
                     THEN Completed(status) ELSE "none"
        /\ UNCHANGED << env, fork, sync, viewable >>

(* set_transaction_status with Mined(h).                                   *)
SetStatusMined(h) ==
    /\ tx.known /\ AnswerMined(h) /\ HeightConsistent(h)
    /\ tx' = RecordMined(tx, h)
    /\ receipt' = NoReceipt
    /\ status' = Completed(status)
    /\ UNCHANGED << env, fork, sync, viewable >>

(* store_decrypted_tx on a payload mined at h.                             *)
StoreMined(h) ==
    /\ AnswerMined(h) /\ HeightConsistent(h)
    /\ tx' = [RecordMined(WithPayload(Row(h), h), h) EXCEPT !.noted = @ \/ viewable]
    /\ receipt' = NoReceipt
    /\ status' = Completed(status)
    /\ UNCHANGED << env, fork, sync, viewable >>

(* store_decrypted_tx on a payload that is not mined.                      *)
StoreUnmined ==
    /\ exists /\ AnswerAbsent
    /\ tx' = [WithPayload(Row(tip + 1), tip + 1) EXCEPT !.noted = @ \/ viewable]
    /\ status' = IF viewable \/ Outgoing THEN status ELSE Queued(status)
    /\ UNCHANGED << env, fork, sync, viewable, receipt >>

(* store_transaction_to_be_sent.                                           *)
Create(target) ==
    /\ ~exists /\ ~tx.known
    /\ target <= tip + 1
    /\ exists' = TRUE
    /\ tx' = [WithPayload(NewRow(target), target) EXCEPT
                 !.target = target, !.observed = Lower(@, tip),
                 !.noted = viewable]
    /\ status' = IF viewable THEN status ELSE Queued(status)
    /\ UNCHANGED << chain, minted, including, fork, sync, viewable, receipt >>

(* put_received_transparent_utxo, for an output mined at h.                *)
ReceiveUtxo(h) ==
    /\ AnswerMined(h) /\ HeightConsistent(h)
    /\ tx' = [MinedAt(Row(h), h) EXCEPT !.observed = Lower(@, tip)]
    /\ UNCHANGED << env, fork, sync, viewable, receipt, status >>

-----------------------------------------------------------------------------
(* transaction_status_work: is the transaction in the next batch?          *)
Waiting == receipt.held /\ ~receipt.replaced

Dormant ==
    /\ tx.expiry > 0
    /\ FullyScanned # NoHeight
    /\ FullyScanned >= tx.expiry + PRUNING_DEPTH

(* Fault: reconfirmation is subject to expiry dormancy.                    *)
FaultyOffered ==
    /\ status # "none" /\ tx.mined = NoHeight
    /\ ~Waiting
    /\ ~Dormant
    /\ tx.confirmed = NoHeight \/ Undecided(tx)

Offered ==
    /\ status # "none" /\ tx.mined = NoHeight
    /\ ~Waiting
    /\ ~Dormant \/ status = "reconfirm"
    /\ tx.confirmed = NoHeight \/ Undecided(tx)

-----------------------------------------------------------------------------
Mining == \E include \in BOOLEAN : MineBlock(include)

Reorganising ==
    \E f \in 0 .. MaxHeight, at \in {NoHeight} \cup Heights : Reorg(f, at)

Scanning == \E s, e \in Heights : PutBlocks(s, e)

GoingBack ==
    \/ \E h \in 0 .. MaxHeight : Truncate(h)
    \/ \E target, trunc \in 0 .. MaxHeight :
            Rewind(target, trunc) \/ ImportAccount(target, trunc)

Answering ==
    \/ SetStatusUnmined
    \/ \E h \in Heights : SetStatusMined(h)

Storing ==
    \/ \E h \in Heights : StoreMined(h) \/ ReceiveUtxo(h)
    \/ StoreUnmined
    \/ \E target \in 1 .. MaxHeight + 1 : Create(target)

Next ==
    \/ Mining \/ Reorganising
    \/ UpdateChainTip \/ Scanning \/ GoingBack
    \/ Answering \/ Storing

Spec == Init /\ [][Next]_vars

(* The sync loop: it follows the tip, scans what is not scanned, rewinds   *)
(* below a block that does not connect and answers the status work.        *)
ScanDue ==
    \E s, e \in Heights : ~(s .. e \subseteq scanned) /\ PutBlocks(s, e)

Stale(k) ==
    blocks[k] # NoBlock /\ (k > Len(chain) \/ blocks[k] # chain[k])

ResolveConflict ==
    \E h \in 0 .. MaxHeight :
        /\ \E k \in Heights : h < k /\ Stale(k)
        /\ Truncate(h)

AnswerOffered == Offered /\ Answering

Fairness ==
    /\ WF_vars(UpdateChainTip)
    /\ WF_vars(ScanDue)
    /\ WF_vars(ResolveConflict)
    /\ WF_vars(AnswerOffered)

FairSpec == Spec /\ Fairness

-----------------------------------------------------------------------------
(* min_observed_consistency and confirmed_unmined_consistency, the other   *)
(* CHECK constraints of table transactions, refuse no call: no sequence of *)
(* scans, answers, payloads and rewinds leaves a mined transaction first   *)
(* observed above its block or confirmed as unmined.                       *)
ConstraintsHold ==
    tx.known /\ tx.mined # NoHeight =>
        tx.observed <= tx.mined /\ tx.confirmed = NoHeight

(* A receipt is kept only with the obligation to ask that it may settle:   *)
(* a scan that finds another block must leave something to fall back on.   *)
ReceiptBacksObligation == receipt.held => status = "reconfirm"

(* Automatic status work waits only for a scan that is still to come: a    *)
(* receipt that withholds the query names a height that is not scanned     *)
(* since the last rewind below it.                                         *)
WaitingIsDue == Waiting => receipt.height \notin scanned

(* A transaction that scanning cannot find again and that is not known as  *)
(* mined.                                                                  *)
Owed == Unobservable /\ tx.mined = NoHeight

(* Such a transaction is left without a status obligation only by an       *)
(* answer that finds it absent past its expiry; no rewind, scan, payload   *)
(* or other answer loses the obligation or forgets to create it.           *)
(* "Transactions without either capability require explicit status         *)
(* observation by txid" (store_decrypted_tx).                              *)
ObligationKept ==
    [][Owed' /\ status' = "none" =>
          \/ Owed /\ status = "none"
          \/ tx'.confirmed # NoHeight /\ ~Undecided(tx')]_vars

(* The inclusion bound that private status work hands to the verifier is   *)
(* conservative: once the wallet has rewound below every reorganisation,   *)
(* no block of the chain below the bound includes the transaction.         *)
EvidenceConservative ==
    tx.known /\ tx.target # NoHeight /\ fork = NoHeight =>
        \A h \in Heights : Included(h) => Lower(tx.target, tx.observed) <= h

(* The mined height never names a block of the chain without the           *)
(* transaction: neither a restored receipt nor a later scan of that height *)
(* binds the transaction to a block that replaced its own.  put_block      *)
(* relies on this, as it associates transactions with blocks by height.    *)
MinedMatchesBlock ==
    tx.known /\ tx.mined # NoHeight /\ blocks[tx.mined] # NoBlock
        /\ OnChain(blocks[tx.mined])
        => blocks[tx.mined] \in including

(* "A mined observation updates transaction metadata"                      *)
(* (transaction_request_lifecycle.md): what is true of the chain can be    *)
(* recorded.                                                               *)
MinedAnswersApply ==
    \A h \in Heights : tx.known /\ AnswerMined(h) => HeightConsistent(h)

(* A transaction that a rewind un-mined is settled once the wallet stops   *)
(* going back for other reasons than a conflict: its block is scanned      *)
(* again, or the status work is offered and answered, whatever its expiry. *)
Settled == ~(status = "reconfirm" /\ tx.mined = NoHeight)

ReconfirmationSettles ==
    <>[][GoingBack => ResolveConflict]_vars => <>[]Settled

=============================================================================
