CONSTANTS
    NumTypes <- MC_NumTypes
    NumDPs = 2
    NumEntriesChoices = {1, 2}
    NumEntriesFiltered = 1
    NumGroupsClear = 0
    NumGroupsEnc = 2
    NumWhereClear = 0
    NumWhereEnc = 1
    NumAggrClear = 0
    NumAggrEnc = 1
    Repetitions = {1, 2}
    MaxCalls = 1
    Extra <- MC_Extra
    Space = Space
    Hash = Hash
    NoData = NoData
SPECIFICATION Spec
INVARIANTS TypeOK GroupsEnumerated RoundTrip CompareDecides
CHECK_DEADLOCK FALSE
