------------------------------ MODULE TestData ------------------------------
(***************************************************************************)
(* The test-data helpers of services/data/handle_data.go: generating the  *)
(* data providers' clear responses (GenerateData, with AllPossibleGroups  *)
(* filling the package-level Groups), computing the expected result of a  *)
(* query over them (ComputeExpectedResult) and comparing two results      *)
(* (CompareClearResponses), writing the data to a file and reading it      *)
(* back (WriteDataToFile, ReadDataFromFile), called in the order            *)
(* handle_data_test.go calls them.                                          *)
(*                                                                         *)
(* A file is a sequence of lines and a line a sequence of tokens: an       *)
(* int64 printed by "%v" is the value itself, the separator a Space and   *)
(* the '#' of a header line a Hash.                                       *)
(*                                                                         *)
(* A DpClearResponse is a record of six attribute maps.  ConvertDataToMap *)
(* keys a slice by its offset and index, so a map is modelled by the     *)
(* slice it was made from; the "both empty" clause of                     *)
(* CompareClearResponses makes a nil map and an empty one equal, which    *)
(* the model cannot tell apart anyway.  The maps of a response are Go     *)
(* reference values: ComputeExpectedResult writes through them into the   *)
(* caller's testData.                                                      *)
(***************************************************************************)
EXTENDS Integers, SequencesExt, FiniteSetsExt

CONSTANTS
    NumTypes,            \* the numType arguments a caller may pass
    NumDPs,
    NumEntriesChoices,   \* the numEntries arguments a caller may pass
    NumEntriesFiltered,
    NumGroupsClear, NumGroupsEnc,
    NumWhereClear, NumWhereEnc,
    NumAggrClear, NumAggrEnc,
    Repetitions,         \* the dataRepetitions arguments
    MaxCalls,            \* bound on the calls of ComputeExpectedResult
    Extra,               \* a response no generated data contains
    Space, Hash,         \* the characters ' ' and '#' of the file
    NoData               \* no value yet; also a nil slice

VARIABLES
    Groups,     \* the package-level Groups accumulator
    testData,   \* dp -> its responses (the map GenerateData returned)
    generated,  \* the data as GenerateData returned it (history only)
    expected,   \* the last result of ComputeExpectedResult, or NoData
    reps,       \* the dataRepetitions of that call
    calls,      \* calls of ComputeExpectedResult so far
    compared,   \* <<x, y>> of the last CompareClearResponses, or NoData
    verdict,    \* what it returned, or NoData
    pc,         \* "init", "generated" or "fatal" (log.Fatal)
    file,       \* the lines of the file, or NoData before WriteDataToFile
    written,    \* testData as WriteDataToFile saw it (history only)
    readBack    \* what ReadDataFromFile returned, or NoData

vars == <<Groups, testData, generated, expected, reps, calls, compared, verdict, pc,
          file, written, readBack>>

NG == NumGroupsClear + NumGroupsEnc
NW == NumWhereClear + NumWhereEnc
NA == NumAggrClear + NumAggrEnc

(* fillInt64Slice: a slice of n copies of v. *)
fillInt64Slice(n, v) == [i \in 1..n |-> v]

(* random(min, max) = rand.Intn(max-min) + min: a value of min..max-1. *)
(* Mutant: the upper bound included.                                   *)
random_Inclusive(min, max) == min..max
random(min, max) == min..(max - 1)

(* AllPossibleGroups(numType, group, pos): the groups it appends to      *)
(* Groups, in order.  pos counts from 0, as in the code; Loop is the     *)
(* for loop over i, which appends i, recurses and truncates group again. *)
RECURSIVE AllPossibleGroups(_, _, _), Loop(_, _, _, _)
(* Mutant: the truncation of line 58 left out, so the next i extends    *)
(* the group of the previous one.                                        *)
Loop_NoPop(numType, group, pos, i) ==
    IF i >= numType[pos + 1] THEN <<>>
    ELSE AllPossibleGroups(numType, Append(group, i), pos + 1)
           \o Loop(numType, Append(group, i), pos, i + 1)
Loop(numType, group, pos, i) ==
    IF i >= numType[pos + 1] THEN <<>>
    ELSE AllPossibleGroups(numType, Append(group, i), pos + 1)
           \o Loop(numType, group, pos, i + 1)
AllPossibleGroups(numType, group, pos) ==
    IF pos = Len(numType) THEN << group >>
    ELSE Loop(numType, group, pos, 0)

(* The DpClearResponse built from the slices grp, where and aggr. *)
Response(grp, where, aggr) ==
    [GroupByClear |-> SubSeq(grp, 1, NumGroupsClear),
     GroupByEnc   |-> SubSeq(grp, NumGroupsClear + 1, NG),
     WhereClear   |-> SubSeq(where, 1, NumWhereClear),
     WhereEnc     |-> SubSeq(where, NumWhereClear + 1, NW),
     AggregatingAttributesClear |-> SubSeq(aggr, 1, NumAggrClear),
     AggregatingAttributesEnc   |-> SubSeq(aggr, NumAggrClear + 1, NA)]

(* The responses entry j of a data provider may get: random aggregating  *)
(* values in 0..1, where attributes 1 for the first numEntriesFiltered   *)
(* entries and 0 after, and a random group or Groups[j].                 *)
Entries(numType, randomGroups, groups, j) ==
    { Response(grp, fillInt64Slice(NW, IF j <= NumEntriesFiltered THEN 1 ELSE 0), aggr) :
        aggr \in [1..NA -> random(0, 2)],
        grp \in IF randomGroups THEN {g \in [1..NG -> UNION {random(0, numType[k]) : k \in 1..NG}] :
                                  \A k \in 1..NG : g[k] \in random(0, numType[k])}
                ELSE {groups[j]} }

(* The lists of n entries a data provider may get. *)
RECURSIVE EntryLists(_, _, _, _)
EntryLists(numType, randomGroups, groups, n) ==
    IF n = 0 THEN {<<>>}
    ELSE {Append(l, e) : l \in EntryLists(numType, randomGroups, groups, n - 1),
                         e \in Entries(numType, randomGroups, groups, n)}

(* ComputeExpectedResult scales the aggregating attributes of every      *)
(* response in place when dataRepetitions > 1.                            *)
Scaled(r, n) ==
    IF n > 1 THEN [r EXCEPT !.AggregatingAttributesClear = [k \in DOMAIN @ |-> @[k] * n],
                            !.AggregatingAttributesEnc   = [k \in DOMAIN @ |-> @[k] * n]]
    ELSE r

(* AddInClear (lib): one response per group of allData, GroupByClear and *)
(* GroupByEnc together, with the aggregating attributes summed column by *)
(* column and the where attributes of one of its responses.               *)
GroupKey(r) == <<r.GroupByClear, r.GroupByEnc>>
AddInClear(s) ==
    LET Idx(k) == {i \in DOMAIN s : GroupKey(s[i]) = k}
        Col(k, f, c) == MapThenSumSet(LAMBDA i : s[i][f][c], Idx(k))
        Pick(k) == s[CHOOSE i \in Idx(k) : TRUE]
    IN  { [Pick(k) EXCEPT
             !.AggregatingAttributesClear = [c \in DOMAIN @ |-> Col(k, "AggregatingAttributesClear", c)],
             !.AggregatingAttributesEnc   = [c \in DOMAIN @ |-> Col(k, "AggregatingAttributesEnc", c)]]
          : k \in {GroupKey(s[i]) : i \in DOMAIN s} }

(* CompareClearResponses(x, y): every response of x equals one of y.  The *)
(* loop breaks at the first response of x with no match, and test keeps   *)
(* its zero value false when x is empty.                                  *)
(* Mutant: the "if !test { break }" left out, so that test is the verdict *)
(* of the last response of x alone.                                       *)
CompareClearResponses_NoBreak(x, y) ==
    /\ Len(x) > 0
    /\ \E j \in DOMAIN y : x[Len(x)] = y[j]
CompareClearResponses(x, y) ==
    /\ Len(x) > 0
    /\ \A i \in DOMAIN x : \E j \in DOMAIN y : x[i] = y[j]

(* flushInt64Data: every value followed by a space, then the newline.  *)
flushInt64Data(slice) == FlattenSeq([i \in DOMAIN slice |-> <<slice[i], Space>>])

(* The six lines of one response, and the lines WriteDataToFile writes:  *)
(* "#" and the key of each provider, in the map's (random) iteration      *)
(* order, followed by the lines of its responses.  The key of provider dp *)
(* is fmt.Sprintf("%v", dp - 1).                                          *)
EntryLines(r) ==
    << flushInt64Data(r.GroupByClear), flushInt64Data(r.GroupByEnc),
       flushInt64Data(r.WhereClear), flushInt64Data(r.WhereEnc),
       flushInt64Data(r.AggregatingAttributesClear), flushInt64Data(r.AggregatingAttributesEnc) >>
Key(dp) == <<dp - 1>>
FileLines(td, order) ==
    FlattenSeq([i \in DOMAIN order |->
        << <<Hash>> \o Key(order[i]) >>
        \o FlattenSeq([j \in DOMAIN td[order[i]] |-> EntryLines(td[order[i]][j])])])

(* lib.StringToInt64Array (not in the repository): the values of a line  *)
(* cut at the spaces, none for an empty text.                              *)
StringToInt64Array(text) == SelectSeq(text, LAMBDA t : t # Space)
(* line[:max(0, len(line)-1)]: the last character (the space) cut off. *)
Trim(line) == SubSeq(line, 1, Len(line) - 1)
(* scanner.Text() after a Scan that found no line is empty. *)
LineAt(ls, i) == IF i <= Len(ls) THEN ls[i] ELSE <<>>
ReadEntry(ls) ==
    LET f(i) == StringToInt64Array(Trim(LineAt(ls, i)))
    IN  [GroupByClear |-> f(1), GroupByEnc |-> f(2), WhereClear |-> f(3),
         WhereEnc |-> f(4), AggregatingAttributesClear |-> f(5),
         AggregatingAttributesEnc |-> f(6)]
IsHeader(line) == Len(line) > 0 /\ line[1] = Hash
(* append to a container that may still be the nil slice *)
AppendC(c, r) == IF c = NoData THEN <<r>> ELSE Append(c, r)

(* ReadDataFromFile, one line (or one six-line response) per call.  The   *)
(* state is its locals: id, dataIn, container and testData.  A header     *)
(* stores the container of the previous id and starts a fresh one, except *)
(* for the first; at the end the last container is stored under id.       *)
(* Mutant: the store after the loop (line 245) left out.                   *)
Final_Dropped(st) == st.td
Final(st) == (st.id :> st.container) @@ st.td
RECURSIVE Parse(_, _)
Parse(ls, st) ==
    IF ls = <<>> THEN Final(st)
    ELSE IF IsHeader(Head(ls))
    THEN Parse(Tail(ls),
               IF st.dataIn
               THEN [st EXCEPT !.td = (st.id :> st.container) @@ st.td,
                               !.container = <<>>, !.id = Tail(Head(ls))]
               ELSE [st EXCEPT !.dataIn = TRUE, !.id = Tail(Head(ls))])
    ELSE Parse(SubSeq(ls, 7, Len(ls)),
               [st EXCEPT !.container = AppendC(st.container, ReadEntry(SubSeq(ls, 1, 6)))])
ReadDataFromFile(ls) ==
    Parse(ls, [id |-> <<>>, dataIn |-> FALSE, container |-> NoData, td |-> <<>>])

-----------------------------------------------------------------------------
Init ==
    /\ Groups = <<>>
    /\ testData = NoData
    /\ generated = NoData
    /\ expected = NoData
    /\ reps = NoData
    /\ calls = 0
    /\ compared = NoData
    /\ verdict = NoData
    /\ pc = "init"
    /\ file = NoData
    /\ written = NoData
    /\ readBack = NoData

(* GenerateData(numDPs, numEntries, ..., numType, randomGroups). *)
GenerateData ==
    /\ pc = "init"
    /\ \E numType \in NumTypes, numEntries \in NumEntriesChoices, randomGroups \in BOOLEAN :
         LET numElem == FoldSeq(LAMBDA a, b : a * b, 1, numType)
             groups  == IF randomGroups THEN Groups ELSE AllPossibleGroups(numType, <<>>, 0)
         IN  \/ /\ \/ Len(numType) # NG
                   \/ ~randomGroups /\ numElem # numEntries
                /\ pc' = "fatal"
                /\ UNCHANGED <<Groups, testData, generated>>
             \/ /\ Len(numType) = NG
                /\ randomGroups \/ numElem = numEntries
                /\ Groups' = groups
                /\ \E d \in [1..NumDPs -> EntryLists(numType, randomGroups, groups, numEntries)] :
                      /\ testData' = d
                      /\ generated' = d
                /\ pc' = "generated"
    /\ UNCHANGED <<expected, reps, calls, compared, verdict, file, written, readBack>>

(* ComputeExpectedResult(testData, dataRepetitions): allData is every    *)
(* response of every provider, scaled through the shared maps; the       *)
(* result is AddInClear(allData), in the map's iteration order.           *)
ComputeExpectedResult ==
    /\ pc = "generated"
    /\ calls < MaxCalls
    /\ \E n \in Repetitions :
         LET shared == [dp \in DOMAIN testData |-> [j \in DOMAIN testData[dp] |-> Scaled(testData[dp][j], n)]]
         IN  /\ expected' \in SetToSeqs(AddInClear(FlattenSeq(shared)))
             /\ reps' = n
             /\ testData' = shared
    /\ calls' = calls + 1
    /\ compared' = NoData
    /\ verdict' = NoData
    /\ UNCHANGED <<Groups, generated, pc, file, written, readBack>>

(* CompareClearResponses(expected, y) against a result y that holds some *)
(* of the expected responses, in any order, and maybe one more.          *)
Compare ==
    /\ expected # NoData
    /\ verdict = NoData
    /\ \E S \in SUBSET (Range(expected) \cup {Extra}) : \E y \in SetToSeqs(S) :
         /\ compared' = <<expected, y>>
         /\ verdict' = CompareClearResponses(expected, y)
    /\ UNCHANGED <<Groups, testData, generated, expected, reps, calls, pc,
                   file, written, readBack>>

(* WriteDataToFile(filename, testData): the providers in any order (Go's *)
(* map iteration is random), each with its responses in order.           *)
WriteDataToFile ==
    /\ pc = "generated"
    /\ file = NoData
    /\ \E order \in SetToSeqs(DOMAIN testData) : file' = FileLines(testData, order)
    /\ written' = testData
    /\ UNCHANGED <<Groups, testData, generated, expected, reps, calls, compared,
                   verdict, pc, readBack>>

(* test_data_read := ReadDataFromFile(filename). *)
ReadBack ==
    /\ file # NoData
    /\ readBack = NoData
    /\ readBack' = ReadDataFromFile(file)
    /\ UNCHANGED <<Groups, testData, generated, expected, reps, calls, compared,
                   verdict, pc, file, written>>

Next == GenerateData \/ ComputeExpectedResult \/ Compare \/ WriteDataToFile \/ ReadBack

Spec == Init /\ [][Next]_vars

-----------------------------------------------------------------------------
(* Properties *)

(* Every generated value is one random and fillInt64Slice can produce:   *)
(* group attributes below their numType, where attributes and            *)
(* aggregating attributes (before any scaling) 0 or 1.                    *)
TypeOK ==
    /\ pc \in {"init", "generated", "fatal"}
    /\ generated # NoData =>
         \A dp \in DOMAIN generated : \A j \in DOMAIN generated[dp] :
            LET r == generated[dp][j]
            IN  /\ \E nt \in NumTypes : Len(nt) = NG /\ \A k \in 1..NG :
                     (r.GroupByClear \o r.GroupByEnc)[k] \in 0..(nt[k] - 1)
                /\ Range(r.WhereEnc) \subseteq {0, 1}
                /\ Range(r.AggregatingAttributesEnc) \subseteq {0, 1}

(* AllPossibleGroups (the test checks only the count): Groups lists every *)
(* combination of group values exactly once, in lexicographic order, and  *)
(* GenerateData gives entry j of every provider the group Groups[j].      *)
LexLess(a, b) == \E k \in DOMAIN a : a[k] < b[k] /\ \A l \in 1..(k - 1) : a[l] = b[l]
GroupsEnumerated ==
    (pc = "generated" /\ Groups # <<>>) =>
        /\ \A i \in 1..(Len(Groups) - 1) : LexLess(Groups[i], Groups[i + 1])
        /\ \A dp \in DOMAIN generated : \A j \in DOMAIN generated[dp] :
              generated[dp][j].GroupByClear \o generated[dp][j].GroupByEnc = Groups[j]
        /\ Len(Groups) = Len(generated[1])
        /\ \A g \in Range(Groups) : Len(g) = NG

(* handle_data_test.go asserts assert.Equal(test_data, ReadDataFromFile): *)
(* reading the file back gives, under every key "i" that was written, the *)
(* responses of provider i in their order, and no other key, whatever the *)
(* order WriteDataToFile wrote the providers in.                           *)
RoundTrip ==
    readBack # NoData =>
        readBack = [id \in {Key(dp) : dp \in DOMAIN written} |-> written[id[1] + 1]]

(* CompareClearResponses decides equality for result lists of the same   *)
(* length: with no response listed twice, it returns true exactly when   *)
(* the two lists hold the same responses, whichever order the loops meet  *)
(* them in and wherever a mismatch sits.                                  *)
CompareDecides ==
    (verdict \in BOOLEAN /\ Len(compared[2]) = Len(compared[1])) =>
        (verdict <=> Range(compared[1]) = Range(compared[2]))

=============================================================================
