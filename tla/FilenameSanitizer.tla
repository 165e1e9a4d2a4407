-------------------------- MODULE FilenameSanitizer --------------------------
(***************************************************************************)
(* services/filename_sanitizer.go over classes of characters: a name is a  *)
(* sequence of letters, dots, blanks, slashes, characters that are removed *)
(* (the other separators and signs, and the control characters below 0x20  *)
(* and 0x7f), control characters from 0x80 on, which are not removed, and  *)
(* the reserved device names, one symbol each.  The length of a name is    *)
(* its number of symbols; a byte that is no UTF-8, which strings.Map turns *)
(* into three, is no symbol here.                                          *)
(*                                                                         *)
(* A definition named after the one right below it is a plausible bug in   *)
(* that definition.                                                        *)
(***************************************************************************)
EXTENDS Integers, Sequences, FiniteSets, FiniteSetsExt

CONSTANT MaxBytes  \* 255: the length names are cut to

ASSUME MaxBytesAssumption == MaxBytes \in Nat \ {0}

Letter == "x"
Dot == "."
Blank == " "
Slash == "/"
Removed == ":"
Control == "^"
Device == "CON"
Char == {Letter, Dot, Blank, Slash, Removed, Control, Device}

UnnamedFile == <<Letter>>   \* "unnamed_file"

(* filepath.Base: without trailing slashes, after the last of the others.  *)
Base(n) ==
  LET named == {i \in DOMAIN n : n[i] # Slash}
      end == Max(named)
      start == 1 + Max({0} \cup {i \in 1..end : n[i] = Slash})
  IN  IF named = {} THEN <<Slash>> ELSE SubSeq(n, start, end)

(* What remains of s when only the symbols at some places are kept.        *)
Place(kept, k) == CHOOSE i \in kept : Cardinality({j \in kept : j <= i}) = k
Keep(s, kept) == [k \in 1..Cardinality(kept) |-> s[Place(kept, k)]]

Strip(s) == Keep(s, {i \in DOMAIN s : s[i] \notin {Slash, Removed}})

TrimDots(s) == SubSeq(s, Min({i \in DOMAIN s : s[i] # Dot} \cup {Len(s) + 1}), Len(s))

(* strings.Fields and Join: one blank between words, none around them.     *)
Collapse(s) ==
  Keep(s, {i \in DOMAIN s :
             \/ s[i] # Blank
             \/ /\ i > 1 /\ s[i - 1] # Blank
                /\ \E j \in i + 1..Len(s) : s[j] # Blank})

(* filepath.Ext: from the last dot on.                                     *)
DotAt(s) == Max({0} \cup {i \in DOMAIN s : s[i] = Dot})
Ext(s) == IF DotAt(s) = 0 THEN <<>> ELSE SubSeq(s, DotAt(s), Len(s))
Stem(s) == SubSeq(s, 1, Len(s) - Len(Ext(s)))

Reserved(s) ==
  LET base == Stem(s)
  IN  base # <<>> /\ base[1] = Device /\ (Len(base) = 1 \/ base[2] = Dot)

Guard(s) == IF Reserved(s) THEN <<Letter>> \o s ELSE s

TruncateOffByOne(s) ==
  IF Len(s) <= MaxBytes + 1 THEN s
  ELSE IF Len(Ext(s)) > MaxBytes THEN SubSeq(s, 1, MaxBytes)
  ELSE SubSeq(Stem(s), 1, MaxBytes - Len(Ext(s))) \o Ext(s)

(* The stem is shortened; an extension that is too long is cut itself.     *)
Truncate(s) ==
  IF Len(s) <= MaxBytes THEN s
  ELSE IF Len(Ext(s)) > MaxBytes THEN SubSeq(s, 1, MaxBytes)
  ELSE SubSeq(Stem(s), 1, MaxBytes - Len(Ext(s))) \o Ext(s)

OrUnnamed(s) == IF s = <<>> THEN UnnamedFile ELSE s

SanitizeGuardingFirst(n) ==
  IF n = <<>> THEN UnnamedFile
  ELSE OrUnnamed(Truncate(Collapse(TrimDots(Guard(Strip(Base(n)))))))

SanitizeFilename(n) ==
  IF n = <<>> THEN UnnamedFile
  ELSE OrUnnamed(Truncate(Guard(Collapse(TrimDots(Strip(Base(n)))))))

IsValidFilename(n) ==
  /\ n # <<>> /\ Len(n) <= MaxBytes
  /\ \A i \in DOMAIN n : n[i] \notin {Slash, Removed, Control}

=============================================================================
