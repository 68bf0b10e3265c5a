SPECIFICATION MCSpec
CONSTANTS
    Null = Null
    p = p
    pUpper = pUpper
    q = q
    other = other
    Typed <- MCTyped
    Norm <- MCNorm
    Savable <- MCSavable
    Slots = {1, 2}
    Hrps = {"", "prl", "tprl", "rprl", "none"}
    HrpLength <- MCHrpLength
    TextOf <- MCTextOf
    PRL_DECIMALS = 2
    MAX_PRL = 12
    DUST_THRESHOLD_GRAIN = 3
    UnitDecimals <- MCUnits
    AmountTexts <- MCAmountTexts
INVARIANTS TypeOK UniqueContacts EditsTakeEffect OnlyPayable PaysWhatWasTyped RecipientsAgree AmountsConvert
CHECK_DEADLOCK FALSE
