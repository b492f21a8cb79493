----------------------------- MODULE LogRotation -----------------------------
(***************************************************************************)
(* The log file of PrintTime: each run of the program that starts with the *)
(* same logfile moves the older files up, copies the file to .1, empties   *)
(* it and writes to it.  Runs may overlap; nothing locks the files.        *)
(***************************************************************************)
EXTENDS Integers

CONSTANTS Runs,      \* programs, numbered in the order they start
          MaxLines   \* bound: messages of a run

Files == 0..9        \* the log file and its copies .1 to .9

VARIABLES
  files,    \* the lines in each file, <<run, number>>, or Absent
  step,     \* of each run, with the number of the file it moves: "new",
            \* "move", "copy", "open", "header", "logging", "ended"
  lines,    \* lines each run has written, its header being the first
  overlap   \* some run started while another had not ended

vars == <<files, step, lines, overlap>>

Absent == {<<0, 0>>}   \* no run has number 0

Init ==
    /\ files = [i \in Files |-> Absent]
    /\ step = [r \in Runs |-> <<"new", 0>>]
    /\ lines = [r \in Runs |-> 0] /\ overlap = FALSE

Goto(r, s) == step' = [step EXCEPT ![r] = s]

\* PrintTime.__init__: nothing to rotate when there is no file yet.
Start(r) ==
    /\ step[r][1] = "new" /\ \A q \in Runs : q < r => step[q][1] # "new"
    /\ Goto(r, IF files[0] = Absent THEN <<"open", 0>> ELSE <<"move", 1>>)
    /\ overlap' = (overlap \/ \E q \in Runs : q < r /\ step[q][1] # "ended")
    /\ UNCHANGED <<files, lines>>

\* .i to .(i + 1), for i upwards from 1 to 8; a failure changes nothing.
MoveFromTwo(r) ==   \* mutant: range(2, 9)
    /\ step[r][1] = "move"
    /\ LET i == step[r][2]
       IN  /\ files' = IF files[i] = Absent \/ i = 1 THEN files
                       ELSE [files EXCEPT ![i + 1] = files[i], ![i] = Absent]
           /\ Goto(r, IF i < 8 THEN <<"move", i + 1>> ELSE <<"copy", 0>>)
    /\ UNCHANGED <<lines, overlap>>

Move(r) ==
    /\ step[r][1] = "move"
    /\ LET i == step[r][2]
       IN  /\ files' = IF files[i] = Absent THEN files
                       ELSE [files EXCEPT ![i + 1] = files[i], ![i] = Absent]
           /\ Goto(r, IF i < 8 THEN <<"move", i + 1>> ELSE <<"copy", 0>>)
    /\ UNCHANGED <<lines, overlap>>

Copy(r) ==
    /\ step[r][1] = "copy"
    /\ files' = [files EXCEPT ![1] = files[0]]
    /\ Goto(r, <<"open", 0>>)
    /\ UNCHANGED <<lines, overlap>>

\* The file is emptied at once; the header is written when it is closed, at
\* its start, over what other runs wrote there meanwhile.
Open(r) ==
    /\ step[r][1] = "open"
    /\ files' = [files EXCEPT ![0] = {}]
    /\ Goto(r, <<"header", 0>>)
    /\ UNCHANGED <<lines, overlap>>

Header(r) ==
    /\ step[r][1] = "header" /\ Goto(r, <<"logging", 0>>)
    /\ \E left \in SUBSET files[0] : files' = [files EXCEPT ![0] = left \union {<<r, 1>>}]
    /\ lines' = [lines EXCEPT ![r] = 1]
    /\ UNCHANGED overlap

\* PrintTime.__call__ appends.
Log(r) ==
    /\ step[r][1] = "logging" /\ lines[r] < MaxLines
    /\ files' = [files EXCEPT ![0] = @ \union {<<r, lines[r] + 1>>}]
    /\ lines' = [lines EXCEPT ![r] = @ + 1]
    /\ UNCHANGED <<step, overlap>>

End(r) ==
    /\ step[r][1] = "logging" /\ Goto(r, <<"ended", 0>>)
    /\ UNCHANGED <<files, lines, overlap>>

Next == \E r \in Runs :
    Start(r) \/ Move(r) \/ Copy(r) \/ Open(r) \/ Header(r) \/ Log(r) \/ End(r)

Spec == Init /\ [][Next]_vars

-----------------------------------------------------------------------------
LinesOf(r) == {<<r, k>> : k \in 1..lines[r]}

(***************************************************************************)
(* When runs do not overlap, the last two runs before the one that logs    *)
(* are kept whole: the last in .1, and the one before it in .9, because    *)
(* moving upwards carries a file through all the names in one rotation.    *)
(***************************************************************************)
LastRunsKept == \A r \in Runs :
    ~overlap /\ step[r][1] \in {"logging", "ended"} /\ (r + 1 \in Runs => step[r + 1][1] = "new")
    => /\ files[0] = LinesOf(r)
       /\ r - 1 \in Runs => files[1] = LinesOf(r - 1)
       /\ r - 2 \in Runs => files[9] = LinesOf(r - 2)
=============================================================================
