----------------------------- MODULE LogHandler -----------------------------
(***************************************************************************)
(* The slog handler of internal/logging/zabbix.go.  A handler is a Go      *)
(* slice of operations, and deriving one handler from another must not     *)
(* show in the other, or in what the caller does with its own slice of     *)
(* attributes afterwards.  So the memory is modelled: an array is a        *)
(* sequence of cells, whose length is its capacity, and a slice is an      *)
(* array with a number of cells.                                           *)
(***************************************************************************)
EXTENDS Integers, Sequences

CONSTANTS Keys,         \* the keys of attributes, TimeKey and LevelKey too
          Groups,       \* the names of groups
          Levels,       \* the levels of records, any integers
          MaxAttrs,     \* the length of the caller's slice of attributes
          MaxHandlers   \* bound: the handlers that are derived

\* The group of an operation that opens none.
NoGroup == ""

ASSUME LogAssumption ==
  /\ Groups \subseteq STRING \ {NoGroup} /\ Levels \subseteq Int
  /\ MaxAttrs \in Nat \ {0}

\* The named levels and the built-in keys of log/slog.
Error == 8
Warn == 4
Info == 0
Debug == -4
TimeKey == "time"
LevelKey == "level"
MessageKey == "msg"

VARIABLES heap,       \* the arrays, by number
          handlers,   \* the slice ops of every handler
          built       \* what was attached to each handler (history)

vars == <<heap, handlers, built>>

Empty == [array |-> 0, length |-> 0]

\* What a handler stands for: its operations in values, the groups that are
\* open, and the fields that were attached under the groups open then.
Nothing == [operations |-> <<>>, path |-> <<>>, fields |-> {}]

With(b, meaning) ==
  [operations |-> Append(b.operations, meaning),
   path |-> IF meaning.group = NoGroup THEN b.path ELSE Append(b.path, meaning.group),
   fields |-> b.fields \cup {<<b.path, meaning.keys[i]>> : i \in DOMAIN meaning.keys}]

-----------------------------------------------------------------------------
Slice(array, length) == [array |-> array, length |-> length]
Contents(memory, s) == [i \in 1 .. s.length |-> memory[s.array][i]]

\* A new array with these cells and some room to spare.
Spares == {<<>>, <<"unused">>}
Allocated(memory, cells, spare) ==
  [memory |-> Append(memory, cells \o spare), slice |-> Slice(Len(memory) + 1, Len(cells))]

\* append(s, x): in place while the array has room, else in a new array, which
\* Go makes larger than it has to be, or not.
Appended(memory, s, x) ==
  IF s.array # 0 /\ s.length < Len(memory[s.array])
    THEN {[memory |-> [memory EXCEPT ![s.array][s.length + 1] = x],
           slice |-> Slice(s.array, s.length + 1)]}
    ELSE {Allocated(memory, Append(Contents(memory, s), x), spare) : spare \in Spares}

\* Bug: the slice is taken over, not copied.
SharedSlice(memory, s, spares) == {[memory |-> memory, slice |-> s]}

\* append([]T(nil), s...): nil for an empty slice, else a new array.
Copied(memory, s, spares) ==
  IF s.length = 0 THEN {[memory |-> memory, slice |-> Empty]}
  ELSE {Allocated(memory, Contents(memory, s), spare) : spare \in spares}

-----------------------------------------------------------------------------
(***************************************************************************)
(* The caller has one slice of attributes, array 1, which it passes in     *)
(* whole or in part and may fill again later.                              *)
(***************************************************************************)
Init == /\ heap \in {<<cells>> : cells \in [1 .. MaxAttrs -> Keys]}
        /\ handlers = <<Empty>>
        /\ built = <<Nothing>>

CallerWrites == /\ \E i \in 1 .. MaxAttrs, k \in Keys : heap' = [heap EXCEPT ![1][i] = k]
                /\ UNCHANGED <<handlers, built>>

\* A clone of handler h, with one more operation.
Derive(h, memory, operation, meaning) ==
  /\ Len(handlers) < MaxHandlers
  /\ \E copy \in Copied(memory, handlers[h], Spares) :
       \E grown \in Appended(copy.memory, copy.slice, operation) :
         /\ heap' = grown.memory
         /\ handlers' = Append(handlers, grown.slice)
  /\ built' = Append(built, With(built[h], meaning))

\* No attributes: the handler itself is returned.  (Nobody appends to the copy
\* of the attributes, so the room that it has is left out.)
WithAttrs(h) ==
  \E n \in 1 .. MaxAttrs :
    \E attrs \in Copied(heap, Slice(1, n), {<<>>}) :
      Derive(h, attrs.memory, [group |-> NoGroup, attrs |-> attrs.slice],
             [group |-> NoGroup, keys |-> Contents(heap, Slice(1, n))])

\* An empty name: likewise.
WithGroup(h) ==
  \E name \in Groups : Derive(h, heap, [group |-> name, attrs |-> Empty],
                              [group |-> name, keys |-> <<>>])

-----------------------------------------------------------------------------
(***************************************************************************)
(* Handle: the operations are replayed on a JSONHandler, in whose output a *)
(* field is its key under the groups that were open.                       *)
(***************************************************************************)
KeysOf(memory, operation) == Contents(memory, operation.attrs)

\* Bug: the built-in fields are dropped in every group.
KeptAnywhere(path, key) == key \notin {TimeKey, LevelKey}

\* ReplaceAttr drops the time and the level, and what has their keys.
Kept(path, key) == path # <<>> \/ key \notin {TimeKey, LevelKey}

\* The groups that are open after a sequence of operations with these groups.
Path(groups) ==
  LET path[i \in 0 .. Len(groups)] ==
        IF i = 0 THEN <<>>
        ELSE IF groups[i] = NoGroup THEN path[i - 1] ELSE Append(path[i - 1], groups[i])
  IN  path[Len(groups)]

PathAfter(operations, n) == Path([i \in 1 .. n |-> operations[i].group])

Written(memory, operations) ==
  UNION {{<<PathAfter(operations, i), KeysOf(memory, operations[i])[k]>> :
            k \in 1 .. operations[i].attrs.length} : i \in DOMAIN operations}

Fields(memory, operations, own) ==
  LET record == {<<PathAfter(operations, Len(operations)), k>> : k \in own}
      builtin == {<<<<>>, TimeKey>>, <<<<>>, LevelKey>>, <<<<>>, MessageKey>>}
  IN  {f \in Written(memory, operations) \cup record \cup builtin : Kept(f[1], f[2])}

\* Bug: a level between two named ones counts as the higher one.
MethodOfUpper(level) ==
  IF level > Warn THEN "Errf" ELSE IF level > Info THEN "Warningf"
  ELSE IF level > Debug THEN "Infof" ELSE IF level = Debug THEN "Debugf" ELSE "Tracef"

\* log: the first case that holds.
Method(level) ==
  IF level >= Error THEN "Errf" ELSE IF level >= Warn THEN "Warningf"
  ELSE IF level >= Info THEN "Infof" ELSE IF level >= Debug THEN "Debugf" ELSE "Tracef"

\* The call of the logger of Zabbix.  It leaves the handler as it is.
Handle(h, level, own) ==
  [method |-> Method(level), fields |-> Fields(heap, Contents(heap, handlers[h]), own)]

Next == \/ CallerWrites
        \/ \E h \in DOMAIN handlers : WithAttrs(h) \/ WithGroup(h)

Spec == Init /\ [][Next]_vars

-----------------------------------------------------------------------------
Meaning(operation) == [group |-> operation.group, keys |-> KeysOf(heap, operation)]

\* A handler keeps what it was made of, whatever is derived from it or from
\* its relatives later, in whatever order, and whatever the caller does with
\* the slice it passed: no two handlers append to the same memory.
HandlersAreIndependent ==
  \A h \in DOMAIN handlers :
    LET operations == Contents(heap, handlers[h])
    IN  built[h].operations = [i \in DOMAIN operations |-> Meaning(operations[i])]

\* A level counts as the highest named one it reaches.
Severity == <<"Tracef", "Debugf", "Infof", "Warningf", "Errf">>
Reached(level) == {t \in {Debug, Info, Warn, Error} : t <= level}
SeverityOf(level) == 1 + (IF Error \in Reached(level) THEN 4
                          ELSE IF Reached(level) = {} THEN 0
                          ELSE (CHOOSE t \in Reached(level) :
                                  \A u \in Reached(level) : u <= t) \div 4 + 2)

\* A record reaches Zabbix with all that was attached to it, nothing of its
\* relatives, and its severity; only the time and the level at the top, which
\* Zabbix writes itself, are left out, with what is attached by these names.
LinesAreFaithful ==
  \A h \in DOMAIN handlers :
    /\ \A level \in Levels : Handle(h, level, {}).method = Severity[SeverityOf(level)]
    /\ \A own \in SUBSET Keys :
         LET all == built[h].fields \cup {<<built[h].path, k>> : k \in own}
         IN  Handle(h, Info, own).fields = {<<<<>>, MessageKey>>}
               \cup {f \in all : ~(f[1] = <<>> /\ f[2] \in {TimeKey, LevelKey})}
=============================================================================
