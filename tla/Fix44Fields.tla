------------------------------ MODULE Fix44Fields ------------------------------
(***************************************************************************)
(* The field markers of FIX.4.4, src/fix44/fields.rs: the value            *)
(* type of every tag in order, and whether constants for its values come   *)
(* with it.                                                                *)
(***************************************************************************)
EXTENDS FieldMarkers

AccountToExecTransType ==
    From(1, <<S, S, S, Cc, Sc, A, I, S, I, S, S, A, Cc, A, S, I, S, Sc, S, Cc>>)

HandlInstToMsgSeqNum == From(21, <<Cc, Sc, S, C, Cc, S, S, Cc, Cc, S, A, A, I, I>>)

MsgTypeToOrdStatus == From(35, <<Sc, I, S, A, Cc>>)

OrdTypeToText == From(40, <<Cc, S, T, B, A, I, S, Cc, S, S, S, D, T, A, Cc, S, S, S, S>>)

TimeInForceToNoRpts ==
    From(59, <<Cc, T, Cc, T, Cc, D, Sc, S, I, I, S, S, Cc, S, I, I, D, S, Cc, I, S, A,
      Cc, I>>)

RptSeqToOrdRejReason ==
    From(83, <<I, A, I, S, Ic, Ic, V, I, V, S, I, Cc, I, V, B, Ic, A, S, X, Ic, Ic>>)

IOIQualifierToOfferPx ==
    From(104, <<Cc, S, S, S, I, S, A, A, S, B, B, S, S, S, A, A, S, B, T, B, I, C, T,
      Cc, S, S, B, S, A, A>>)

BidSizeToAccruedInterestAmt ==
    From(134, <<A, A, I, A, S, Cw, A, B, S, S, S, S, I, S, S, S, Cc, A, A, A, A, A, Cc,
      I, A, A>>)

SettlInstModeToSettlLocation == From(160, <<Cc, S, S, Cc, S, Cc, Sc>>)

SecurityTypeToSecuritySettlAgentCode == From(167, <<Sc, T, Ic, S, S, I, S, S, S, S, S>>)

SecuritySettlAgentAcctNumToAllocHandlInst ==
    From(178, <<S, S, S, S, S, S, S, S, S, S, A, A, A, A, A, D, A, A, S, Ic, S, I, S,
      Ic, A, Ic, Ic, I, C, S, B, Ic>>)

MaxShowToNoStipulations ==
    From(210, <<A, A, I, V, S, I, Ic, S, A, Cc, S, Sc, S, A, D, D, I, A, A, D, D, A,
      I>>)

StipulationTypeToUnderlyingRepurchaseTerm ==
    From(233, <<Sc, S, Sc, A, A, A, I, D, D, D, I, I>>)

UnderlyingRepurchaseRateToMDMkt ==
    From(245, <<A, A, D, D, D, I, I, A, A, D, S, S, S, B, D, A, X, S, Cc, I, Ic, B, I,
      I, Cc, A, A, D, S, Cc, S>>)

QuoteConditionToDefOfferSize ==
    From(276, <<Sc, Sc, S, Cc, S, Cc, S, S, S, Cc, Sc, I, S, S, I, Sc, Sc, A, A>>)

NoQuoteEntriesToSecurityReqID ==
    From(295, <<I, I, Ic, Ic, S, Ic, Ic, S, Ic, I, S, S, S, S, S, S, S, S, S, I, I, A,
      C, S, A, S>>)

SecurityRequestTypeToTradSesStatus ==
    From(321, <<Ic, S, Ic, S, B, Ic, Cc, B, B, A, A, A, A, Ic, S, S, S, Ic, Ic, Ic>>)

TradSesStartTimeToRefMsgType ==
    From(341, <<T, T, T, T, T, I, S, I, V, I, V, I, V, I, V, I, V, I, V, I, V, I, V, I,
      V, A, T, Ic, I, T, I, S>>)

SessionRejectReasonToTotNoRelatedSym ==
    From(373, <<Ic, Cc, S, S, B, Ic, S, Ic, A, I, I, I, Cc, I, A, Cc, A, S, S, S, I>>)

BidTypeToBidTradeType ==
    From(394, <<Ic, I, A, A, I, Ic, S, Ic, A, A, A, A, A, A, A, Ic, A, B, A, A, Ic, I,
      Ic, I, Cc>>)

BasisPxTypeToClearingFirm ==
    From(419, <<Cc, I, S, I, Ic, A, A, A, Ic, I, Ic, Ic, Ic, D, Cc, Cc, A, A, A, T, S>>)

ClearingAccountToUnderlyingSecurityAltIDSource ==
    From(440, <<S, I, Cc, T, S, I, V, Cc, S, D, S, A, Ic, I, I, S, S, I, S, S>>)

ProductToMailingInst ==
    From(460, <<Ic, S, I, S, B, Ic, S, S, Cc, A, S, S, S, I, S, S, S, Ic, S, S, Cc, Cc,
      S>>)

TransBkdTimeToCashDistribAgentAcctName ==
    From(483, <<T, Cc, A, D, Ic, S, S, D, S, Ic, S, S, Ic, S, Cc, S, S, S, S, S>>)

CardStartDateToOwnerType ==
    From(503, <<D, D, S, Cc, Ic, S, S, I, S, A, S, Cc, T, A, Cc, I, Ic, A, S, Ic>>)

PartySubIDToInstrRegistry ==
    From(523, <<S, S, C, S, S, Cc, Sc, Cc, Cc, Cw, I, I, S, S, Ic, I, I, A, D, D, Sc>>)

CashMarginToTradeRequestID ==
    From(544, <<Cc, S, Sc, B, S, Ic, Ic, S, Ic, S, S, I, S, I, I, Ic, Ic, A, A, Ic, C,
      I, A, Ic, S>>)

TradeRequestTypeToOrigOrdModTime ==
    From(569, <<Ic, B, S, S, Cc, Sc, B, I, Ic, S, S, I, Ic, Ic, S, S, Ic, T>>)

LegSettlTypeToLegSecurityDesc ==
    From(587, <<C, D, Cc, Cc, Cc, S, S, S, S, S, S, S, S, S, S, S, S, S, S, S, I, S, S,
      S, D, A, C, A, A, S, S, I, V, S>>)

EncodedLegSecurityDescLenToLegalConfirm ==
    From(621, <<I, V, A, C, S, Ic, I, S, T, I, A, A, A, A, Sc, B, A, Ic, A, A, A, A, A,
      S, A, A, A, A, S, B>>)

UnderlyingLastPxToLegBenchmarkCurveCurrency ==
    From(651, <<A, A, Ic, S, S, A, A, Ic, S, Ic, I, A, I, S, Ic, Ic, S, Ic, A, I, S, S,
      A, S, S, S>>)

LegBenchmarkCurveNameToNoPositions ==
    From(677, <<S, S, A, I, A, S, I, A, A, I, A, S, S, Ic, S, Ic, S, Ic, C, D, A, I, S,
      B, D, I>>)

PosTypeToPosMaintResult ==
    From(703, <<Sc, A, A, Ic, Sc, A, Ic, S, I, Ic, S, S, D, S, S, Ic, B, B, S, Ic, Ic>>)

PosReqTypeToTradeRequestResult ==
    From(724, <<Ic, Ic, S, I, Ic, Ic, A, Ic, A, I, A, I, S, A, A, D, S, A, A, D, Cc, A,
      A, Cc, I, Ic>>)

TradeRequestStatusToIndividualAllocRejCode ==
    From(750, <<Ic, Ic, Ic, I, B, S, I, S, C, I, S, S, S, S, S, A, A, S, I, T, Ic, S, S,
      Ic, Ic, Ic, I>>)

SettlInstMsgIDToNoPartySubIDs ==
    From(777, <<S, I, T, Ic, I, S, C, I, S, I, Cc, Ic, I, S, S, Ic, S, Ic, S, Ic, B, Ic,
      A, A, I, I>>)

PartySubIDTypeToTradeAllocIndicator ==
    From(803, <<Ic, I, I, I, I, Ic, X, A, A, I, I, Ic, Ic, I, S, S, Ic, S, S, S, S, S,
      S, Ic>>)

ExpirationCycleToDiscretionScope ==
    From(827, <<Ic, Ic, I, S, S, I, S, A, Ic, Ic, Ic, Ic, A, Ic, Ic, Ic, Ic, Ic, A,
      Ic>>)

TargetStrategyToNoInstrAttrib ==
    From(847, <<Ic, S, A, A, Ic, B, Ic, Ic, I, Ic, Ic, A, S, A, A, I, A, I, Ic, D, A, S,
      A, I>>)

InstrAttribTypeToCollAsgnReason ==
    From(871, <<Ic, S, D, D, Ic, S, S, S, A, S, S, A, A, A, A, A, I, S, S, A, Ic, I, B,
      S, Ic>>)

CollInquiryQualifierToStartCash ==
    From(896, <<Ic, I, A, A, A, A, S, Ic, S, Ic, Ic, S, S, S, Ic, I, B, S, S, D, D, D,
      S, Ic, A, A>>)

EndCashToCollInquiryStatus ==
    From(922, <<A, S, Ic, S, Ic, S, Ic, S, S, S, S, S, S, Ic, I, Ic, I, Ic, Ic, S, S, S,
      Ic, Ic>>)

CollInquiryResultToLegInterestAccrualDate ==
    From(946, <<Ic, S, I, S, C, I, I, S, I, S, D>>)

--------------------------------------------------------------------------------
Fields_fix44 ==
    AccountToExecTransType @@ HandlInstToMsgSeqNum @@ MsgTypeToOrdStatus @@
    OrdTypeToText @@ TimeInForceToNoRpts @@ RptSeqToOrdRejReason @@
    IOIQualifierToOfferPx @@ BidSizeToAccruedInterestAmt @@ SettlInstModeToSettlLocation
    @@ SecurityTypeToSecuritySettlAgentCode @@ SecuritySettlAgentAcctNumToAllocHandlInst
    @@ MaxShowToNoStipulations @@ StipulationTypeToUnderlyingRepurchaseTerm @@
    UnderlyingRepurchaseRateToMDMkt @@ QuoteConditionToDefOfferSize @@
    NoQuoteEntriesToSecurityReqID @@ SecurityRequestTypeToTradSesStatus @@
    TradSesStartTimeToRefMsgType @@ SessionRejectReasonToTotNoRelatedSym @@
    BidTypeToBidTradeType @@ BasisPxTypeToClearingFirm @@
    ClearingAccountToUnderlyingSecurityAltIDSource @@ ProductToMailingInst @@
    TransBkdTimeToCashDistribAgentAcctName @@ CardStartDateToOwnerType @@
    PartySubIDToInstrRegistry @@ CashMarginToTradeRequestID @@
    TradeRequestTypeToOrigOrdModTime @@ LegSettlTypeToLegSecurityDesc @@
    EncodedLegSecurityDescLenToLegalConfirm @@
    UnderlyingLastPxToLegBenchmarkCurveCurrency @@ LegBenchmarkCurveNameToNoPositions @@
    PosTypeToPosMaintResult @@ PosReqTypeToTradeRequestResult @@
    TradeRequestStatusToIndividualAllocRejCode @@ SettlInstMsgIDToNoPartySubIDs @@
    PartySubIDTypeToTradeAllocIndicator @@ ExpirationCycleToDiscretionScope @@
    TargetStrategyToNoInstrAttrib @@ InstrAttribTypeToCollAsgnReason @@
    CollInquiryQualifierToStartCash @@ EndCashToCollInquiryStatus @@
    CollInquiryResultToLegInterestAccrualDate
================================================================================
