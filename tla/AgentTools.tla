----------------------------- MODULE AgentTools -----------------------------
(***************************************************************************)
(* What the agent's tools answer (agent/tools.ts, write-tools.ts,          *)
(* truncation.ts), as functions of the file contents: the capped read, the *)
(* capped scan of grep, the capped list of glob, and the exact-match edit. *)
(* Every answer that left something out must say so.                       *)
(*                                                                         *)
(* A text is the sequence of the byte widths of its characters; a file     *)
(* that grep's walk lists is its size, the number of its lines that match, *)
(* and whether it can no longer be looked at when the scan gets to it.     *)
(***************************************************************************)
EXTENDS Naturals, Sequences, FiniteSets, FiniteSetsExt

CONSTANTS MaxReadBytes, MaxMatches, MaxFileBytes, MaxTotalBytes, MaxGlob

ASSUME CapsAssumption ==
  {MaxReadBytes, MaxMatches, MaxFileBytes, MaxTotalBytes, MaxGlob} \subseteq Nat

(* What the first n of some numbers come to. *)
Sums(nums) ==
  LET sum[n \in 0 .. Len(nums)] == IF n = 0 THEN 0 ELSE sum[n - 1] + nums[n]
  IN  sum

Total(nums) == Sums(nums)[Len(nums)]
Bytes(text) == Total(text)

Char(width) == [i \in 1 .. width |-> IF i = 1 THEN "lead" ELSE "more"]

(* The bytes of a text. *)
Encoded(text) ==
  LET bytes[n \in 0 .. Len(text)] ==
        IF n = 0 THEN <<>> ELSE bytes[n - 1] \o Char(text[n])
  IN  bytes[Len(text)]

(* The cut backs off while the first byte left out continues a character.  *)
Cut(text, max) ==
  LET bytes == Encoded(text)
  IN  Max({c \in 0 .. max : c = 0 \/ bytes[c + 1] = "lead"})

DecodeUtf8Capped(text, max) ==
  IF Bytes(text) <= max THEN [bytes |-> Bytes(text), marked |-> FALSE]
  ELSE [bytes |-> Cut(text, max), marked |-> TRUE]

ReadFile(text) == DecodeUtf8Capped(text, MaxReadBytes)

-----------------------------------------------------------------------------
NoScan == [matches |-> 0, capped |-> FALSE, skipped |-> 0,
           bytesCapped |-> FALSE, total |-> 0]

ScanFile_SkipsSilently(scan, file) ==
  IF scan.capped \/ scan.bytesCapped \/ file.gone \/ file.size > MaxFileBytes THEN scan
  ELSE [scan EXCEPT !.total = @ + file.size,
                    !.matches = Min({@ + file.hits, MaxMatches}),
                    !.capped = scan.matches + file.hits > MaxMatches]

(* One file of the walk, in order; both caps end the scan.  One that is     *)
(* gone since is passed over without a word.                               *)
ScanFile(scan, file) ==
  IF scan.capped \/ scan.bytesCapped \/ file.gone THEN scan
  ELSE IF file.size > MaxFileBytes THEN [scan EXCEPT !.skipped = @ + 1]
  ELSE IF scan.total + file.size > MaxTotalBytes THEN [scan EXCEPT !.bytesCapped = TRUE]
  ELSE [scan EXCEPT !.total = @ + file.size,
                    !.matches = Min({@ + file.hits, MaxMatches}),
                    !.capped = scan.matches + file.hits > MaxMatches]

Grep(files) ==
  LET scan[n \in 0 .. Len(files)] ==
        IF n = 0 THEN NoScan ELSE ScanFile(scan[n - 1], files[n])
  IN  scan[Len(files)]

Glob(found) == [paths |-> Min({found, MaxGlob}), marked |-> found > MaxGlob]

-----------------------------------------------------------------------------
(* edit_file: the text must occur exactly once; old and new are one        *)
(* character, so occurrences cannot overlap.                               *)
Occurrences(text, old) == {i \in DOMAIN text : text[i] = old}

EditFile(text, old, new, maxBytes) ==
  LET at == Occurrences(text, old)
      edited == [i \in DOMAIN text |-> IF i \in at THEN new ELSE text[i]]
  IN  IF Bytes(text) > maxBytes \/ Cardinality(at) # 1 \/ Bytes(edited) > maxBytes
      THEN [isError |-> TRUE, text |-> text]
      ELSE [isError |-> FALSE, text |-> edited]

-----------------------------------------------------------------------------
(* A capped read keeps whole characters, as many as fit, and is marked     *)
(* exactly when something is missing.                                      *)
ReadHonest(text, out) ==
  LET fits == {Sums(text)[n] : n \in 0 .. Len(text)}
  IN  /\ out.bytes = Max({b \in fits : b <= MaxReadBytes})
      /\ out.marked <=> out.bytes # Bytes(text)

Hits(file) == IF file.gone THEN 0 ELSE file.hits

(* A grep without a marker has every match of every file that was still    *)
(* there when its turn came (one that vanished after the walk leaves no    *)
(* marker), and one with a marker stays within the caps.                   *)
GrepHonest(files, out) ==
  LET hits == Total([i \in DOMAIN files |-> Hits(files[i])])
  IN  /\ out.matches <= MaxMatches /\ out.total <= MaxTotalBytes
      /\ out.matches < hits => out.capped \/ out.bytesCapped \/ out.skipped > 0
      /\ out.capped => out.matches = MaxMatches

GlobHonest(found, out) == out.marked <=> out.paths # found

(* A refused edit changes nothing; one that is done changed one place and  *)
(* left a file that can be edited again.                                   *)
EditHonest(text, old, maxBytes, out) ==
  IF out.isError THEN out.text = text
  ELSE /\ Cardinality(Occurrences(text, old)) = 1
       /\ \A i \in DOMAIN text : text[i] # old => out.text[i] = text[i]
       /\ Bytes(out.text) <= maxBytes
=============================================================================
