------------------------------- MODULE Calib --------------------------------
(***************************************************************************)
(* src/Robot/storage/calib/calib.c: the calibration values saved as a CLI  *)
(* script through a temporary file, and the loader that feeds it to the    *)
(* CLI one line at a time.                                                 *)
(*                                                                         *)
(* The volume is the one fs.h promises (FileStore): each call whole or not *)
(* at all, also when the power fails in it. A line of the file is the      *)
(* cell that sets one value, and EOL. The CLI takes keys from its queue    *)
(* later than they were put there (external).                              *)
(***************************************************************************)
EXTENDS Integers, Sequences, SequencesExt

CONSTANTS
  KeyOrder,        \* registered items, then wires, as calib_save() asks them
  Items,           \* those that always have a value
  Values, Default, Uncalibrated,
  CALIB_FILE, CALIB_TMP, EOL,
  KEYQ,            \* cells the key queue holds
  MaxLoads         \* loads that wait or run at one time

VARIABLES
  values,          \* the value of each key
  files,
  saving, todo,    \* calib_save(): where it is, and which of KeyOrder it has still to write
  startups, steps, \* calib_startup and calib_step actions queued
  loading, load_off, saved_echo,
  echo,            \* the CLI echoes keys
  keyq, line,      \* keys waiting, and the line the CLI has of them
  kept, changed    \* history: values last saved; whether one changed since

Keys == {KeyOrder[i] : i \in DOMAIN KeyOrder}
Line(k, v) == <<[word |-> k, value |-> v]>>

Fs == INSTANCE FileStore WITH
        Names <- {CALIB_FILE, CALIB_TMP},
        Texts <- {Line(k, v) : k \in Keys, v \in Values}

save      == <<saving, todo>>
loader    == <<startups, steps, loading, load_off, saved_echo, echo>>
cli       == <<keyq, line>>
ghosts    == <<kept, changed>>
calibvars == <<values, files, save, loader, cli, ghosts>>

Defaults == [k \in Keys |-> IF k \in Items THEN Default ELSE Uncalibrated]
Boots ==
  /\ values' = Defaults /\ changed' = FALSE
  /\ saving' = "no" /\ todo' = {}
  /\ startups' = 1 /\ steps' = 0 /\ loading' = FALSE /\ load_off' = 0
  /\ saved_echo' = FALSE /\ echo' = TRUE
  /\ keyq' = <<>> /\ line' = <<>>

CalibInit ==
  /\ values = Defaults /\ kept = Defaults /\ changed = FALSE
  /\ Fs!Init
  /\ saving = "no" /\ todo = {}
  /\ startups = 1 /\ steps = 0 /\ loading = FALSE /\ load_off = 0
  /\ saved_echo = FALSE /\ echo = TRUE
  /\ keyq = <<>> /\ line = <<>>

(***************************************************************************)
(* calib_save(), one call of the volume per step.                          *)
(***************************************************************************)
\* The keys with a line of their own.
ToSave(vals) == {i \in DOMAIN KeyOrder : vals[KeyOrder[i]] # Uncalibrated}

\* The file that holds the lines of the first n keys, and the whole of it.
Script(vals) ==
  LET upto[n \in 0 .. Len(KeyOrder)] ==
        IF n = 0 THEN <<>>
        ELSE IF n \in ToSave(vals)
             THEN upto[n - 1] \o Line(KeyOrder[n], vals[KeyOrder[n]]) \o <<EOL>>
             ELSE upto[n - 1]
  IN  upto
Whole(vals) == Script(vals)[Len(KeyOrder)]

\* The result is not looked at. A fs_remove() that fails has taken the file out of
\* the directory in memory (fs.c:278-284): it is gone until the next boot, which
\* finds it as it would one that an interrupted save has left.
RemoveIfAny(n) == IF n \in DOMAIN files THEN Fs!fs_remove(n) ELSE files' = files

\* Mutant of Target: the file itself is rewritten.
TargetFile == CALIB_FILE

Target == CALIB_TMP

SaveBegin ==
  /\ saving = "begin"
  /\ RemoveIfAny(Target)
  /\ saving' = "lines"
  /\ todo' = ToSave(values)
  /\ UNCHANGED <<values, loader, cli, ghosts>>

emit_line ==
  /\ saving = "lines" /\ todo # {}
  /\ LET i == Min(todo) IN
     /\ Fs!fs_append_line(Target, Line(KeyOrder[i], values[KeyOrder[i]]))
     /\ todo' = todo \ {i}
  /\ UNCHANGED <<values, saving, loader, cli, ghosts>>

\* The volume is full: the temporary file is dropped, the old one stays.
SaveFails ==
  /\ saving = "lines" /\ todo # {}
  /\ RemoveIfAny(Target)
  /\ saving' = "no" /\ todo' = {}
  /\ UNCHANGED <<values, loader, cli, ghosts>>

SaveDone ==
  /\ saving = "lines" /\ todo = {}
  /\ IF ToSave(values) = {} THEN RemoveIfAny(CALIB_FILE) ELSE Fs!fs_rename(Target, CALIB_FILE)
  /\ saving' = "no"
  /\ kept' = values /\ changed' = FALSE
  /\ UNCHANGED <<values, todo, loader, cli>>

\* The rename fails: the temporary file and the old one stay.
RenameFails ==
  /\ saving = "lines" /\ todo = {} /\ ToSave(values) # {}
  /\ saving' = "no"
  /\ UNCHANGED <<values, files, todo, loader, cli, ghosts>>

(***************************************************************************)
(* The loader, and the CLI it feeds.                                       *)
(***************************************************************************)
Saved == Fs!Contents(CALIB_FILE)

\* Mutant of Busy: a second load starts over while one runs.
NeverBusy == FALSE

Busy == loading

\* One turn of calib_step(), `left` of them queued besides it.
Feed(left, off) ==
  LET eol == SelectInSubSeq(Saved, off + 1, Len(Saved), LAMBDA x : x = EOL)
      fed == keyq \o SubSeq(Saved, off + 1, eol)
  IN  /\ off < Len(Saved)
      /\ keyq' = IF Len(fed) > KEYQ THEN SubSeq(fed, 1, KEYQ) ELSE fed
      /\ load_off' = eol
      /\ steps' = left + 1

Ends(left, off, restore) ==
  /\ off >= Len(Saved)
  /\ loading' = FALSE
  /\ steps' = left
  /\ load_off' = off
  /\ keyq' = keyq
  /\ echo' = (echo \/ restore)

\* Mutant of LineTaken: the next line is fed before the last one was read.
LineTakenAlways == TRUE

LineTaken == keyq = <<>>

\* Until the line before was read, calib_step() only calls itself again.
calib_step ==
  /\ saving = "no" /\ steps > 0
  /\ LineTaken
  /\ \/ Feed(steps - 1, load_off) /\ UNCHANGED <<echo, loading>>
     \/ Ends(steps - 1, load_off, saved_echo)
  /\ UNCHANGED <<values, files, save, startups, saved_echo, line, ghosts>>

calib_startup ==
  /\ saving = "no" /\ startups > 0
  /\ startups' = startups - 1
  /\ \/ /\ Busy
        /\ UNCHANGED <<steps, loading, load_off, saved_echo, echo, keyq>>
     \/ /\ ~Busy
        /\ saved_echo' = echo
        /\ \/ /\ keyq # <<>>
              /\ steps' = steps + 1 /\ load_off' = 0 /\ loading' = TRUE /\ echo' = FALSE
              /\ UNCHANGED keyq
           \/ /\ keyq = <<>>
              /\ \/ Feed(steps, 0) /\ echo' = FALSE /\ loading' = TRUE
                 \/ Ends(steps, 0, echo)
  /\ UNCHANGED <<values, files, save, line, ghosts>>

calib_load ==
  /\ startups + steps < MaxLoads
  /\ startups' = startups + 1
  /\ UNCHANGED <<values, files, save, steps, loading, load_off, saved_echo, echo, cli, ghosts>>

\* The CLI takes one key; EOL runs the line.
CliKey ==
  /\ saving = "no" /\ keyq # <<>>
  /\ keyq' = Tail(keyq)
  /\ line' = IF Head(keyq) = EOL THEN <<>> ELSE Append(line, Head(keyq))
  /\ values' = IF Head(keyq) = EOL /\ Len(line) = 1
               THEN [values EXCEPT ![line[1].word] = line[1].value] ELSE values
  /\ UNCHANGED <<files, save, loader, ghosts>>

\* Nothing is being loaded, no key waits.
Quiet == saving = "no" /\ ~loading /\ startups = 0 /\ keyq = <<>> /\ line = <<>>

\* A setter word, or calib!, typed while nothing is being loaded.
UserSets(k, v) ==
  /\ Quiet
  /\ values' = [values EXCEPT ![k] = v]
  /\ changed' = TRUE
  /\ UNCHANGED <<files, save, loader, cli, kept>>

calib_cli_save ==
  /\ Quiet
  /\ saving' = "begin"
  /\ UNCHANGED <<values, files, todo, loader, cli, ghosts>>

Saving == SaveBegin \/ emit_line \/ SaveFails \/ SaveDone \/ RenameFails

CalibNext ==
  \/ Saving
  \/ calib_startup \/ calib_step \/ CliKey
  \/ calib_load \/ calib_cli_save
  \/ \E k \in Keys, v \in Values : UserSets(k, v)
=============================================================================
