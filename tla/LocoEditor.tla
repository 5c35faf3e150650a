----------------------------- MODULE LocoEditor -----------------------------
(***************************************************************************)
(* The digit editor of the LOCO screen and what readConfig() accepts of    *)
(* the address it saves, before LocoEngine's Swap puts it under control.   *)
(* The first digit also says whether the address is short: Short, above 9, *)
(* stands for an s.                                                        *)
(***************************************************************************)
EXTENDS LocoEngineHistory

VARIABLES
  digit,    \* decimalNumber
  at        \* decimalNumberIndex

editorvars == <<digit, at>>

\* 's' - '0'
Short == 67
Digits == 0 .. 9
Low(d) == d[1] * 100 + d[2] * 10 + d[3]
FitsShort(d) == Low(d) < 128

\* The digits of an address, [short, number].
DigitsOf(a) ==
  [i \in 0 .. 3 |->
     IF i = 0 THEN IF a.short THEN Short ELSE (a.number \div 1000) % 10
     ELSE (a.number \div (IF i = 1 THEN 100 ELSE IF i = 2 THEN 10 ELSE 1)) % 10]

\* The screen is entered with the address of a throttle that was reset.
EditorInit == digit = DigitsOf([short |-> TRUE, number |-> 3]) /\ at = 0

Set(i, v) == digit' = [digit EXCEPT ![i] = v] /\ UNCHANGED at
Fits(i, v) == FitsShort([digit EXCEPT ![i] = v])

\* A first digit of a short address becomes a long one's, and back where the rest fits.
UpFirst ==
  /\ at = 0
  /\ Set(0, IF digit[0] > 9 THEN 0
            ELSE IF digit[0] < 9 THEN digit[0] + 1
            ELSE IF FitsShort(digit) THEN Short ELSE 0)
DownFirst ==
  /\ at = 0
  /\ Set(0, IF digit[0] > 9 THEN 9
            ELSE IF digit[0] > 0 THEN digit[0] - 1
            ELSE IF FitsShort(digit) THEN Short ELSE 9)

UpLong ==
  /\ at > 0 /\ digit[0] <= 9
  /\ Set(at, IF digit[at] < 9 THEN digit[at] + 1 ELSE 0)
DownLong ==
  /\ at > 0 /\ digit[0] <= 9
  /\ Set(at, IF digit[at] > 0 THEN digit[at] - 1 ELSE 9)

\* Mutant: the check of the hundreds forgets the one it is about to set.
UpShortUnchecked ==
  /\ at > 0 /\ digit[0] > 9
  /\ Set(at, CASE at = 1 -> IF FitsShort(digit) THEN 1 ELSE 0
               [] at > 1 -> IF Fits(at, digit[at] + 1) /\ digit[at] < 9 THEN digit[at] + 1 ELSE 0)

UpShort ==
  /\ at > 0 /\ digit[0] > 9
  /\ Set(at, CASE at = 1 -> IF Fits(1, digit[1] + 1) THEN 1 ELSE 0
               [] at > 1 -> IF Fits(at, digit[at] + 1) /\ digit[at] < 9 THEN digit[at] + 1 ELSE 0)

DownShort ==
  /\ at > 0 /\ digit[0] > 9
  /\ Set(at, IF digit[at] > 0 THEN digit[at] - 1
             ELSE CASE at = 1 -> IF Fits(1, 1) THEN 1 ELSE 0
                    [] at = 2 -> IF Fits(2, 9) THEN 9 ELSE IF Fits(2, 2) THEN 2 ELSE 1
                    [] at = 3 -> IF Fits(3, 9) THEN 9 ELSE 7)

Advance == at' = (at + 1) % 4 /\ UNCHANGED digit

\* readConfig() resets an address it does not accept (a short one to the long 127).
Accepted(a) ==
  IF a.short THEN IF a.number > 127 THEN [short |-> FALSE, number |-> 127] ELSE a
  ELSE IF a.number > 9999 THEN [a EXCEPT !.number = 9999] ELSE a

Edited ==
  IF digit[0] > 9 THEN [short |-> TRUE, number |-> Low(digit)]
  ELSE [short |-> FALSE, number |-> digit[0] * 1000 + Low(digit)]

\* SELECT saves; the screen is entered again with the address that readConfig() left.
Select == digit' = DigitsOf(Accepted(Edited)) /\ at' = 0

EditorNext ==
  \/ UpFirst \/ DownFirst \/ UpLong \/ DownLong \/ UpShort \/ DownShort
  \/ Advance \/ Select

EditorSpec == EditorInit /\ [][EditorNext]_editorvars

-----------------------------------------------------------------------------
(* Whatever way the digits were turned, the address under control after     *)
(* SELECT is the one the screen showed: readConfig() has nothing to reset.  *)
ShownIsSet ==
  Accepted(Edited) = Edited

(* LOCO as a whole: SELECT puts the address shown under control, and the    *)
(* locomotives left last come back with the engine they were left with.     *)
LocoFollows == []ShownIsSet /\ EngineComesBack
=============================================================================
