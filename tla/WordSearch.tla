------------------------------ MODULE WordSearch ------------------------------
(***************************************************************************)
(* The three dictionary programs of W2S2_Codes: strSearch.c looks a word   *)
(* up by trying every row; strSBS.c and strMS.c sort the rows, by          *)
(* insertion and by merging, and look it up by halving.                    *)
(*                                                                         *)
(* A word is a number, and strcmp() compares numbers.  The recursion of    *)
(* MSort() is a stack of the calls that are left.                          *)
(***************************************************************************)
EXTENDS Integers, Sequences, FiniteSets

CONSTANTS Words,     \* the words, in the order of strcmp()
          MaxRows,   \* bound: the rows of the dictionary, MAXWORD
          Queries    \* bound: the words that are looked up

ASSUME WordSearchAssumption ==
    /\ Words \subseteq Int /\ Words # {}
    /\ MaxRows \in Nat /\ Queries \in Nat

Programs == {"strSearch", "strSBS", "strMS"}
Rows == 0 .. MaxRows - 1

VARIABLES program, pc,
          a, dSize,          \* dictionary and the number of its rows
          max,               \* N, the number of words to read
          given, filled,     \* history: the dictionary as it was read, and how many of
                             \* its rows hold a word that was read
          i, j, next,        \* of sort()
          stack,             \* the calls of MSort() and M() that are left
          left, right, b,    \* of M()
          W, low, high, idxOfX,    \* of binarySearch(); low is i of searchDictionary()
          found, asked       \* of queryWordList(); the words that were looked up

reading == <<dSize, max, given, filled>>
inserting == <<i, j, next>>
merging == <<stack, left, right, b>>
searching == <<W, low, high, idxOfX>>
counting == <<found, asked>>
vars == <<program, pc, a, reading, inserting, merging, searching, counting>>

\* A call of MSort(low, high), or of M(low, mid, high).
MSorting(from, to) == [call |-> "MSort", low |-> from, mid |-> from, high |-> to]
Merging(from, middle, to) == [call |-> "M", low |-> from, mid |-> middle, high |-> to]

\* What stands for a word that is not set yet, and not looked at.
unset == CHOOSE word \in Words : TRUE

\* The number typed for N fits the rows, which nothing checks (strMS.c:130).
Init ==
    /\ program \in Programs /\ pc = "read"
    /\ a \in [Rows -> Words]     \* the stack is not initialized
    /\ dSize = 0 /\ max \in 0 .. MaxRows /\ given = a /\ filled = 0
    /\ i = 1 /\ j = 0 /\ next = unset
    /\ stack = <<>> /\ left = 0 /\ right = 0 /\ b = <<>>
    /\ W = unset /\ low = 0 /\ high = -1 /\ idxOfX = -1
    /\ found = 0 /\ asked = <<>>

-----------------------------------------------------------------------------
\* readDictionary(): one word, as long as there is room.
ReadWord ==
    /\ pc = "read" /\ dSize < max
    /\ \E word \in Words : a' = [a EXCEPT ![dSize] = word]
    /\ dSize' = dSize + 1
    /\ UNCHANGED <<program, pc, max, given, filled, inserting, merging, searching, counting>>

\* readDictionary() returns: all rows are read; or fscanf() has failed, after its row was counted;
\* or the file is not there.
DictionaryRead ==
    /\ pc = "read"
    /\ dSize' \in (IF dSize = max THEN {dSize} ELSE {dSize + 1}) \cup (IF dSize = 0 THEN {0} ELSE {})
    /\ given' = a /\ filled' = dSize
    /\ pc' = [strSearch |-> "query", strSBS |-> "sort", strMS |-> "MSort"][program]
    /\ stack' = <<MSorting(0, dSize' - 1)>>
    /\ UNCHANGED <<program, a, max, inserting, left, right, b, searching, counting>>

-----------------------------------------------------------------------------
\* sort(): the next word is taken out.
TakeNext ==
    /\ pc = "sort" /\ i < dSize
    /\ next' = a[i] /\ j' = i - 1 /\ pc' = "shift"
    /\ UNCHANGED <<program, a, reading, i, merging, searching, counting>>

\* A row moves up as long as its word comes after the one taken.
mustShift == j >= 0 /\ a[j] > next

Shift ==
    /\ pc = "shift" /\ mustShift
    /\ a' = [a EXCEPT ![j + 1] = a[j]] /\ j' = j - 1
    /\ UNCHANGED <<program, pc, reading, i, next, merging, searching, counting>>

\* Mutant: the word goes where the last comparison was.
InsertAtJ ==
    /\ pc = "shift" /\ ~mustShift
    /\ a' = [a EXCEPT ![IF j < 0 THEN 0 ELSE j] = next] /\ i' = i + 1 /\ pc' = "sort"
    /\ UNCHANGED <<program, reading, j, next, merging, searching, counting>>

Insert ==
    /\ pc = "shift" /\ ~mustShift
    /\ a' = [a EXCEPT ![j + 1] = next] /\ i' = i + 1 /\ pc' = "sort"
    /\ UNCHANGED <<program, reading, j, next, merging, searching, counting>>

-----------------------------------------------------------------------------
call == Head(stack)

\* MSort(): two halves and their merging, or nothing.
Divide ==
    /\ pc = "MSort" /\ stack # <<>> /\ call.call = "MSort"
    /\ LET middle == (call.low + call.high) \div 2
       IN  stack' = (IF call.low < call.high
                     THEN <<MSorting(call.low, middle), MSorting(middle + 1, call.high),
                            Merging(call.low, middle, call.high)>>
                     ELSE <<>>) \o Tail(stack)
    /\ UNCHANGED <<program, pc, a, reading, inserting, left, right, b, searching, counting>>

BeginMerge ==
    /\ pc = "MSort" /\ stack # <<>> /\ call.call = "M"
    /\ left' = call.low /\ right' = call.mid + 1 /\ b' = <<>> /\ pc' = "merge"
    /\ UNCHANGED <<program, a, reading, inserting, stack, searching, counting>>

\* M(): the lower of the two first words, or one that is left.
TakeLeft ==
    /\ pc = "merge" /\ left <= call.mid
    /\ right <= call.high => a[left] < a[right]
    /\ b' = Append(b, a[left]) /\ left' = left + 1
    /\ UNCHANGED <<program, pc, a, reading, inserting, stack, right, searching, counting>>

TakeRight ==
    /\ pc = "merge" /\ right <= call.high
    /\ left <= call.mid => ~(a[left] < a[right])
    /\ b' = Append(b, a[right]) /\ right' = right + 1
    /\ UNCHANGED <<program, pc, a, reading, inserting, stack, left, searching, counting>>

\* M() ends: b is copied back.
CopyBack ==
    /\ pc = "merge" /\ left > call.mid /\ right > call.high
    /\ a' = [k \in Rows |-> IF k \in call.low .. call.high THEN b[k - call.low + 1] ELSE a[k]]
    /\ stack' = Tail(stack) /\ pc' = "MSort"
    /\ UNCHANGED <<program, reading, inserting, left, right, b, searching, counting>>

\* sort() or MSort() returns to main().
Sorted ==
    /\ \/ pc = "sort" /\ i >= dSize
       \/ pc = "MSort" /\ stack = <<>>
    /\ pc' = "query"
    /\ UNCHANGED <<program, a, reading, inserting, merging, searching, counting>>

-----------------------------------------------------------------------------
\* queryWordList(): the next word of the file.
Ask ==
    /\ pc = "query" /\ Len(asked) < Queries /\ pc' = "search"
    /\ W' \in Words /\ low' = 0 /\ high' = dSize - 1 /\ idxOfX' = -1
    /\ UNCHANGED <<program, a, reading, inserting, merging, counting>>

\* Mutant: the last row that is left is not tried.
isSearchingTwo == low < high /\ idxOfX = -1

isSearching == low <= high /\ idxOfX = -1

mid == (low + high) \div 2

\* searchDictionary(): one row.
TryRow ==
    /\ pc = "search" /\ program = "strSearch" /\ isSearching
    /\ IF a[low] = W THEN idxOfX' = low /\ UNCHANGED low ELSE low' = low + 1 /\ UNCHANGED idxOfX
    /\ UNCHANGED <<program, pc, a, reading, inserting, merging, W, high, counting>>

\* Mutant: the row that was too low is tried again.
HalveToMid ==
    /\ pc = "search" /\ program # "strSearch" /\ isSearching
    /\ \/ a[mid] = W /\ idxOfX' = mid /\ UNCHANGED <<low, high>>
       \/ a[mid] < W /\ low' = mid /\ UNCHANGED <<high, idxOfX>>
       \/ a[mid] > W /\ high' = mid - 1 /\ UNCHANGED <<low, idxOfX>>
    /\ UNCHANGED <<program, pc, a, reading, inserting, merging, W, counting>>

\* binarySearch(): the row in the middle.
Halve ==
    /\ pc = "search" /\ program # "strSearch" /\ isSearching
    /\ \/ a[mid] = W /\ idxOfX' = mid /\ UNCHANGED <<low, high>>
       \/ a[mid] < W /\ low' = mid + 1 /\ UNCHANGED <<high, idxOfX>>
       \/ a[mid] > W /\ high' = mid - 1 /\ UNCHANGED <<low, idxOfX>>
    /\ UNCHANGED <<program, pc, a, reading, inserting, merging, W, counting>>

\* Mutant: an index of 0 is taken for none.
AnswerAboveZero ==
    /\ pc = "search" /\ ~isSearching /\ pc' = "query"
    /\ found' = found + (IF idxOfX > 0 THEN 1 ELSE 0) /\ asked' = Append(asked, W)
    /\ UNCHANGED <<program, a, reading, inserting, merging, searching>>

\* queryWordList() counts a word that was found.
Answer ==
    /\ pc = "search" /\ ~isSearching /\ pc' = "query"
    /\ found' = found + (IF idxOfX # -1 THEN 1 ELSE 0) /\ asked' = Append(asked, W)
    /\ UNCHANGED <<program, a, reading, inserting, merging, searching>>

-----------------------------------------------------------------------------
Reads == ReadWord \/ DictionaryRead
Sorts == TakeNext \/ Shift \/ Insert \/ Divide \/ BeginMerge \/ TakeLeft \/ TakeRight
         \/ CopyBack \/ Sorted
Searches == TryRow \/ Halve \/ Answer
Next == Reads \/ Sorts \/ Ask \/ Searches

Spec == Init /\ [][Next]_vars
\* The programs compute on their own; which words there are to look up is up to a file.
FairSpec == Spec /\ WF_vars(Reads \/ Sorts \/ Searches)

-----------------------------------------------------------------------------
TypeOK ==
    /\ program \in Programs
    /\ pc \in {"read", "sort", "shift", "MSort", "merge", "query", "search"}
    /\ a \in [Rows -> Words] /\ given \in [Rows -> Words]
    /\ dSize \in 0 .. max /\ max \in 0 .. MaxRows /\ filled \in 0 .. max
    /\ i \in Nat /\ j \in Int /\ next \in Words
    /\ stack \in Seq([call : {"MSort", "M"}, low : Int, mid : Int, high : Int])
    /\ left \in Int /\ right \in Int /\ b \in Seq(Words)
    /\ W \in Words /\ low \in Nat /\ high \in Int /\ idxOfX \in Int
    /\ found \in Nat /\ asked \in Seq(Words)

TheRows == 0 .. dSize - 1
Ordered(from, to) == \A k, l \in from .. to : k < l => a[k] <= a[l]

\* Every row that the programs read or write is one of the dictionary's: the indices
\* of sort(), M() and binarySearch() stay inside, for an empty dictionary too
\* (strMS.c:24-36, 75-88, strSBS.c:14-21).
RowsInside ==
    /\ pc = "shift" => i \in TheRows /\ j \in -1 .. i - 1
    /\ pc = "merge" => /\ call.low >= 0 /\ call.high < dSize /\ call.low < call.high
                       /\ left \in call.low .. call.mid + 1
                       /\ right \in call.mid + 1 .. call.high + 1
                       /\ Len(b) = (left - call.low) + (right - call.mid - 1)
    /\ pc = "search" => (isSearching => mid \in TheRows) /\ idxOfX \in -1 .. dSize - 1

\* Sorting loses and invents no word: the rows that are looked up are those that were
\* read, the row that the failed fscanf() counted included (strMS.c:66).
Times(f, word) == Cardinality({k \in TheRows : f[k] = word})
RowsKept ==
    pc \in {"query", "search"} => \A word \in Words : Times(a, word) = Times(given, word)

\* M() merges what is in order, and the rows are in order when they are halved: each
\* sort does what binarySearch() relies on.
OrderedForSearch ==
    /\ pc \in {"query", "search"} /\ program # "strSearch" => Ordered(0, dSize - 1)
    /\ pc = "merge" => Ordered(call.low, call.mid) /\ Ordered(call.mid + 1, call.high)
    /\ pc = "sort" => Ordered(0, IF i < dSize THEN i - 1 ELSE dSize - 1)

\* In rows that are in order, a search ends with an index exactly when there is one
\* (strMS.c:71-92, strSearch.c:9-20).
FoundIffThere ==
    pc = "search" /\ ~isSearching /\ (program = "strSearch" \/ Ordered(0, dSize - 1)) =>
        /\ idxOfX # -1 => idxOfX \in TheRows /\ a[idxOfX] = W
        /\ idxOfX = -1 => \A k \in TheRows : a[k] # W

\* The count is of the words looked up that were read, as often as they were looked up,
\* when every row counted holds one, and so it is the same in the three programs.  When
\* the file ends before N words, or has none, readDictionary() has counted a row more
\* (strMS.c:66) than "the actual size" (strSearch.c:78): then the word that was in that
\* row's memory is counted, too, if it is looked up, and no other.
WasRead(word) == \E k \in 0 .. filled - 1 : given[k] = word
CountIsRight ==
    /\ pc # "read" => dSize \in {filled, filled + 1}
    /\ dSize = filled => found = Cardinality({n \in 1 .. Len(asked) : WasRead(asked[n])})
    /\ dSize # filled =>
          found = Cardinality({n \in 1 .. Len(asked) :
                                  WasRead(asked[n]) \/ given[filled] = asked[n]})

\* A row that is tried is the word, or is left out of what is still searched; and the
\* search by halving leaves half of the rows or fewer, so that it tries no more rows
\* than their number has binary digits (strMS.c:71-92, strSBS.c:14-21, strSearch.c:9-20).
RowsLeft == high - low + 1
Narrows ==
    [][ (TryRow \/ Halve) /\ idxOfX' = -1 =>
            /\ 0 <= RowsLeft' /\ RowsLeft' < RowsLeft
            /\ Halve => 2 * RowsLeft' <= RowsLeft ]_vars

\* Sorting ends, and so does every search: each program comes back to its file of
\* words for as long as there are some (strMS.c:77, strSBS.c:17).
SearchEnds == []<>(pc = "query")
=============================================================================
