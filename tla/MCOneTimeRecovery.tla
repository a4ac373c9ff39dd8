------------------------- MODULE MCOneTimeRecovery -------------------------
EXTENDS OneTimeRecovery

CONSTANTS t1, t2

(* t1 pays the first receive index, t2 the refund key. *)
MCPays == [tx \in Txs |-> IF tx = t1 THEN 0 ELSE MaxIndex + 1]

Quiet == [items |-> {t1}, omitted |-> {}, mislabeled |-> {}, revisions |-> 0, rewinds |-> 0,
          calls |-> {}]

(* Discovery and filters, with a rewind. *)
Rewound   == [Quiet EXCEPT !.rewinds = 1, !.calls = {"begin", "filter"}]
(* Addresses are issued as well, and the service may ask for an upgrade. *)
Issuing   == [Quiet EXCEPT !.calls = {"begin", "filter", "issue", "upgrade"}]
(* The user searches by hand, or resets recovery. *)
Searching == [Quiet EXCEPT !.calls = {"manual"}]
Resetting == [Quiet EXCEPT !.calls = {"begin", "reset"}]
(* The index left a payment out and is corrected; the birthday is lowered. *)
Corrected(call) == [Quiet EXCEPT !.omitted = {t1}, !.revisions = 1, !.calls = {call, "birthday"}]
(* The directory labels the payment with a wrong transaction. *)
Relabeled == [Quiet EXCEPT !.mislabeled = {t1}, !.calls = {"begin"}]
(* Another device funded a refund key. *)
Refunded  == [Quiet EXCEPT !.items = {t2, MaxIndex + 1}, !.calls = {"filter"}]

MCScenarios == {Rewound, Issuing, Searching, Resetting, Corrected("begin"), Corrected("filter"),
                Relabeled, Refunded}
MCRewound   == {Rewound}

(* A mislabeled payment whose block is rewound. *)
MCUnmined   == {[Relabeled EXCEPT !.rewinds = 1]}
=============================================================================
