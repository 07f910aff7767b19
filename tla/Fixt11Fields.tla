----------------------------- MODULE Fixt11Fields -----------------------------
(***************************************************************************)
(* The field markers of FIXT.1.1, src/fixt11/fields.rs: the value          *)
(* type of every tag in order, and whether constants for its values come   *)
(* with it.                                                                *)
(***************************************************************************)
EXTENDS FieldMarkers

BeginSeqNoToSenderSubID ==
    From(7, <<I, S, I, S>>) @@ From(16, <<I>>) @@ From(34, <<I, Sc, I>>) @@
      From(43, <<B, X, I, X, X, X, S, S>>)

SendingTimeToRefMsgType ==
    From(52, <<T, X, X, X, S, S, S>>) @@ From(89, <<V, I, V, X, I, X, I, V, B, Ic>>) @@
      From(108, <<I, X, X, X, S, X, X, S, S>>) @@ From(122, <<T, B>>) @@
      From(128, <<S, S>>) @@ From(141, <<B, S, S, S, S>>) @@ From(212, <<I, V>>) @@
      From(347, <<Sc>>) @@ From(354, <<I, V>>) @@ From(369, <<I, X, I, S>>)

SessionRejectReasonToDefaultApplVerID ==
    From(373, <<Ic>>) @@ From(383, <<I, I, Cc>>) @@ From(464, <<B>>) @@
      From(553, <<S, S>>) @@ From(627, <<I, S, T, I>>) @@ From(789, <<I>>) @@
      From(1128, <<Sc, S, S, S>>) @@ From(1137, <<S>>)

--------------------------------------------------------------------------------
Fields_fixt11 ==
    BeginSeqNoToSenderSubID @@ SendingTimeToRefMsgType @@
    SessionRejectReasonToDefaultApplVerID
================================================================================
