------------------------------ MODULE Fix50Fields ------------------------------
(***************************************************************************)
(* The field markers of FIX.5.0, src/fix50/fields.rs: the value            *)
(* type of every tag in order, and whether constants for its values come   *)
(* with it.                                                                *)
(***************************************************************************)
EXTENDS FieldMarkers

AccountToExecRefID ==
    From(1, <<S, S, S, Cc, Sc, A, I, S, I, S, S, A, Cc, A, S, I, S, Sc, S>>)

ExecTransTypeToMsgSeqNum ==
    From(20, <<Cc, Cc, Sc, S, C, Cc, S, Sc, Cc, Cc, S, A, A, I, I>>)

MsgTypeToOrdStatus == From(35, <<Sc, I, S, A, Cc>>)

OrdTypeToText == From(40, <<Cc, S, T, B, A, I, S, Cc, S, S, S, D, T, A, Cc, S, S, S, S>>)

TimeInForceToProcessCode ==
    From(59, <<Cc, T, Cc, T, Sc, D, Sc, S, I, I, S, S, Cc, S, I, I, D, S, Cc, I, S, A,
      Cc>>)

NoRptsToCxlRejReason ==
    From(82, <<I, I, A, I, S, Ic, Ic, V, I, V, S, I, Cc, I, V, B, Ic, A, S, X, Ic>>)

OrdRejReasonToDKReason ==
    From(103, <<Ic, Cc, S, S, S, I, S, A, A, S, B, B, S, S, S, A, A, S, B, T, B, I, C,
      T, Cc>>)

DeliverToCompIDToSettlCurrFxRate ==
    From(128, <<S, S, B, S, A, A, A, A, I, A, S, Sc, A, B, S, S, S, S, I, S, S, S, Cc,
      A, A, A, A, A>>)

SettlCurrFxRateCalcToSettlLocation == From(156, <<Cc, I, A, A, Cc, S, S, Cc, S, Cc, Sc>>)

SecurityTypeToSettlInstCode == From(167, <<Sc, T, Ic, S, S, Ic, S, S, S>>)

SecuritySettlAgentNameToNotifyBrokerOfCredit ==
    From(176, <<S, S, S, S, S, S, S, S, S, S, S, S, A, A, A, A, A, D, A, A, S, Ic, S, I,
      S, Ic, A, Ic, Ic, I, C, S, B>>)

AllocHandlInstToNoStipulations ==
    From(209, <<Ic, A, A, I, V, S, I, Ic, S, A, Cc, S, Sc, S, A, D, D, I, A, A, D, D, A,
      I>>)

StipulationTypeToUnderlyingRepurchaseRate ==
    From(233, <<Sc, S, Sc, A, A, A, I, D, D, D, I, I, A>>)

UnderlyingFactorToMDEntryTime ==
    From(246, <<A, D, D, D, I, I, A, A, D, S, S, S, B, D, A, X, S, Cc, I, Ic, B, I, I,
      Cc, A, A, D, S>>)

TickDirectionToQuoteCondition == From(274, <<Cc, S, Sc>>)

TradeConditionToOpenCloseSettlFlag == From(277, <<Sc, S, Cc, S, Cc, S, S, S, Cc, Sc>>)

SellerDaysToUnderlyingSecurityIDSource ==
    From(287, <<I, S, S, I, Sc, Sc, A, A, I, I, Ic, Ic, S, Ic, Ic, S, Ic, I, S>>)

UnderlyingIssuerToSellVolume ==
    From(306, <<S, S, S, S, S, S, S, S, I, I, A, C, S, A, S, Ic, S, Ic, S, B, Ic, Cc, B,
      B, A, A>>)

HighPxToEncodedUnderlyingIssuerLen ==
    From(332, <<A, A, Ic, S, S, S, Ic, Ic, Ic, T, T, T, T, T, I, S, I, V, I, V, I, V, I,
      V, I, V, I, V, I, V, I>>)

EncodedUnderlyingIssuerToNoMsgTypes ==
    From(363, <<V, I, V, A, T, Ic, I, T, I, S, Ic, Cc, S, S, B, Ic, S, Ic, A, I, I, I>>)

MsgDirectionToCrossPercent ==
    From(385, <<Cc, I, A, Cc, A, S, S, S, I, Ic, I, A, A, I, Ic, S, Ic, A, A, A, A, A,
      A, A, Ic, A, B, A, A>>)

ProgRptReqsToListOrderStatus ==
    From(414, <<Ic, I, Ic, I, Cc, Cc, I, S, I, Ic, A, A, A, Ic, I, Ic, Ic, Ic>>)

ExpireDateToNetChgPrevDay ==
    From(432, <<D, Cc, Cc, A, A, A, T, S, S, I, Cc, T, S, I, V, Cc, S, D, S, A>>)

PartyRoleToTestMessageIndicator == From(452, <<Ic, I, I, S, S, I, S, S, Ic, S, I, S, B>>)

QuantityTypeToDateOfBirth ==
    From(465, <<Ic, S, S, Cc, A, S, S, S, I, S, S, S, Ic, S, S, Cc, Cc, S, T, Cc, A,
      D>>)

TradeReportTransTypeToRegistStatus ==
    From(487, <<Ic, S, S, D, S, Ic, S, S, Ic, S, Cc, S, S, S, S, S, D, D, S, Cc>>)

RegistRejReasonCodeToSecondaryExecID ==
    From(507, <<Ic, S, S, I, S, A, S, Cc, T, A, Cc, I, Ic, A, S, Ic, S, S, C, S, S>>)

OrderCapacityToCrossID ==
    From(528, <<Cc, Sc, Cc, Cc, Ic, I, I, S, S, Ic, I, I, A, D, D, S, Cc, S, Sc, B, S>>)

CrossTypeToMatchStatus ==
    From(549, <<Ic, Ic, S, Ic, S, S, I, S, I, I, Ic, Ic, A, A, Ic, C, I, A, Ic, S, Ic,
      B, S, S, Cc>>)

MatchTypeToDayBookingInst ==
    From(574, <<Sc, B, I, Ic, S, S, I, Ic, Ic, S, S, Ic, T, C, D, Cc>>)

BookingUnitToLegSide ==
    From(590, <<Cc, Cc, S, S, S, S, S, S, S, S, S, S, S, S, S, S, S, I, S, S, S, D, A,
      C, A, A, S, S, I, V, S, I, V, A, C>>)

TradingSessionSubIDToUnderlyingLastQty ==
    From(625, <<S, Ic, I, S, T, I, A, A, A, A, Sc, B, A, Ic, A, A, A, A, A, S, A, A, A,
      A, S, B, A, A>>)

SecDefStatusToLegBenchmarkCurvePoint ==
    From(653, <<Ic, S, S, A, A, Ic, S, Ic, I, A, I, S, Ic, Ic, S, Ic, A, I, S, S, A, S,
      S, S, S, S>>)

LegBenchmarkPriceToPosType ==
    From(679, <<A, I, A, S, I, A, A, I, A, S, S, Ic, S, Ic, S, Ic, C, D, A, I, S, B, D,
      I, Sc>>)

LongQtyToPosReqType ==
    From(704, <<A, A, Ic, Sc, A, Ic, S, I, Ic, S, S, D, Sc, S, Ic, B, B, S, Ic, Ic,
      Ic>>)

ResponseTransportTypeToTradeRequestStatus ==
    From(725, <<Ic, S, I, Ic, Ic, A, Ic, A, I, A, I, S, A, A, D, S, A, A, D, Cc, A, A,
      Cc, I, Ic, Ic>>)

TradeReportRejectReasonToNoSettlInst ==
    From(751, <<Ic, Ic, I, B, S, I, S, C, I, S, S, S, S, S, A, A, S, I, T, Ic, S, S, Ic,
      Ic, Ic, I, S, I>>)

LastUpdateTimeToNoPartySubIDs ==
    From(779, <<T, Ic, I, S, C, I, S, I, Cc, Ic, I, S, S, Ic, S, Ic, S, Ic, B, Ic, A, A,
      I, I>>)

PartySubIDTypeToExchangeRule ==
    From(803, <<Ic, I, I, I, I, Ic, X, A, A, I, I, Ic, Ic, I, S, S, Ic, S, S, S, S, S,
      S>>)

TradeAllocIndicatorToPegOffsetType == From(826, <<Ic, Ic, Ic, Ic, S, S, I, S, A, Ic, Ic>>)

PegLimitTypeToSecondaryTrdType ==
    From(837, <<Ic, Ic, A, Ic, Ic, Ic, Ic, Ic, A, Ic, Ic, S, A, A, Ic, B, Ic, Ic, I>>)

TradeReportTypeToUnderlyingCPProgram ==
    From(856, <<Ic, Ic, A, S, A, A, I, A, I, Ic, D, A, S, A, I, Ic, S, D, D, Ic, S, S>>)

UnderlyingCPRegTypeToCollAsgnRespType ==
    From(878, <<S, A, S, S, A, A, A, A, A, I, S, S, A, Ic, I, B, S, Ic, Ic, I, A, A, A,
      A, S, Ic, S, Ic>>)

CollAsgnRejectReasonToNetworkResponseID ==
    From(906, <<Ic, S, S, S, Ic, I, B, S, S, D, D, D, S, Ic, A, A, A, S, Ic, S, Ic, S,
      Ic, S, S, S, S>>)

NetworkRequestIDToStrategyParameterName ==
    From(933, <<S, S, Ic, I, Ic, I, Ic, Ic, S, S, S, Ic, Ic, Ic, S, I, S, C, I, I, S, I,
      S, D, I, S>>)

StrategyParameterTypeToExpQty ==
    From(959, <<Ic, S, S, T, I, I, Sc, S, A, A, A, I, I, A, A, Sc, Ic, D, S, B, S, Cc,
      I, Ic, A>>)

NoUnderlyingAmountsToSideTrdRegTimestamp ==
    From(984, <<I, A, A, D, S, S, S, A, Ic, S, S, X, Sc, Sc, S, S, S, S, Ic, S, X, S, S,
      S, Ic, I, X, S, T>>)

SideTrdRegTimestampTypeToDeskTypeSource ==
    From(1013, <<I, S, Cc, I, A, I, S, A, Ic, S, I, Ic, A, A, A, B, B, S, Sc, Ic, Sc,
      Ic>>)

DeskOrderHandlingInstToUndlyInstrumentPartyIDSource ==
    From(1035, <<Sc, Cc, A, A, S, S, S, S, Ic, A, A, Cc, Cc, A, C, C, I, I, S, I, S, A,
      B, I, S, C>>)

UndlyInstrumentPartyRoleToPriceProtectionScope ==
    From(1061, <<I, I, S, I, A, A, A, A, A, Ic, A, A, A, A, A, X, X, X, S, S, Cc, A, Cc,
      Cc, A, A, A, A, A, I, B, Cc>>)

LotTypeToOrderCategory ==
    From(1093, <<Cc, Ic, A, S, S, S, S, Cc, Cc, A, S, S, S, S, Cc, Cc, Cc, A, Cc, A, S,
      S, Cc>>)

NoRootPartyIDsToExchangeSpecialInstructions ==
    From(1116, <<I, S, C, I, I, S, I, Cc, C, D, S, S, Sc, S, S, S, S, Cc, B, S, S, S, A,
      S>>)

--------------------------------------------------------------------------------
Fields_fix50 ==
    AccountToExecRefID @@ ExecTransTypeToMsgSeqNum @@ MsgTypeToOrdStatus @@
    OrdTypeToText @@ TimeInForceToProcessCode @@ NoRptsToCxlRejReason @@
    OrdRejReasonToDKReason @@ DeliverToCompIDToSettlCurrFxRate @@
    SettlCurrFxRateCalcToSettlLocation @@ SecurityTypeToSettlInstCode @@
    SecuritySettlAgentNameToNotifyBrokerOfCredit @@ AllocHandlInstToNoStipulations @@
    StipulationTypeToUnderlyingRepurchaseRate @@ UnderlyingFactorToMDEntryTime @@
    TickDirectionToQuoteCondition @@ TradeConditionToOpenCloseSettlFlag @@
    SellerDaysToUnderlyingSecurityIDSource @@ UnderlyingIssuerToSellVolume @@
    HighPxToEncodedUnderlyingIssuerLen @@ EncodedUnderlyingIssuerToNoMsgTypes @@
    MsgDirectionToCrossPercent @@ ProgRptReqsToListOrderStatus @@
    ExpireDateToNetChgPrevDay @@ PartyRoleToTestMessageIndicator @@
    QuantityTypeToDateOfBirth @@ TradeReportTransTypeToRegistStatus @@
    RegistRejReasonCodeToSecondaryExecID @@ OrderCapacityToCrossID @@
    CrossTypeToMatchStatus @@ MatchTypeToDayBookingInst @@ BookingUnitToLegSide @@
    TradingSessionSubIDToUnderlyingLastQty @@ SecDefStatusToLegBenchmarkCurvePoint @@
    LegBenchmarkPriceToPosType @@ LongQtyToPosReqType @@
    ResponseTransportTypeToTradeRequestStatus @@ TradeReportRejectReasonToNoSettlInst @@
    LastUpdateTimeToNoPartySubIDs @@ PartySubIDTypeToExchangeRule @@
    TradeAllocIndicatorToPegOffsetType @@ PegLimitTypeToSecondaryTrdType @@
    TradeReportTypeToUnderlyingCPProgram @@ UnderlyingCPRegTypeToCollAsgnRespType @@
    CollAsgnRejectReasonToNetworkResponseID @@ NetworkRequestIDToStrategyParameterName
    @@ StrategyParameterTypeToExpQty @@ NoUnderlyingAmountsToSideTrdRegTimestamp @@
    SideTrdRegTimestampTypeToDeskTypeSource @@
    DeskOrderHandlingInstToUndlyInstrumentPartyIDSource @@
    UndlyInstrumentPartyRoleToPriceProtectionScope @@ LotTypeToOrderCategory @@
    NoRootPartyIDsToExchangeSpecialInstructions
================================================================================
