--------------------------- MODULE ConfigHistory ---------------------------
(***************************************************************************)
(* What the configuration store promises, kept in a book beside it: the    *)
(* value of every field of every profile as the firmware that wrote it     *)
(* meant it, and as the operator's saves, loads and resets changed it.     *)
(***************************************************************************)
EXTENDS ConfigStore

VARIABLES
    book,   \* [Slots -> [Fields -> Kinds]] what each profile should mean
    torn    \* the profiles an interrupted job left half written

chVars == <<cVars, book, torn>>

(***************************************************************************)
(* The meaning of a slot under layout v, from the layouts' definitions     *)
(* (cst-eeprom.h) and not from the migrations: where the field was, whether*)
(* it existed, whether an erased byte was a value or stood for a default.  *)
(***************************************************************************)
Place(f, v) ==
    CASE f = "accel"   -> "x28"
      [] f = "brk2"    -> IF v = 2 THEN "x2C" ELSE IF v \in 3..8 THEN "x54" ELSE ""
      [] f = "opload"  -> IF v = 2 THEN "x3D" ELSE IF v \in 3..8 THEN "x59" ELSE ""
      [] f = "adj"     -> IF v \in 4..8 THEN "x61" ELSE ""
      [] f = "menuBtn" -> IF v \in 5..8 THEN "x2C" ELSE ""
      [] f = "charged" -> IF v \in 2..8 THEN "x4A" ELSE ""

RawSince == [accel |-> 4, brk2 |-> 8, opload |-> 7, adj |-> 4, menuBtn |-> 5,
             charged |-> 9]

Meaning(img, v) ==
    [f \in DOMAIN Fields |->
        LET p == Place(f, v)
        IN  IF p = "" \/ (img[p] = "E" /\ (v = BLANK \/ v < RawSince[f]))
              THEN "D" ELSE img[p]]

CHInit ==
    /\ CInit
    /\ book = [s \in Slots |-> Meaning(store[s], version)]
    /\ torn = {}

Unfinished == {job[k].slot : k \in {j \in DOMAIN job : job[j].how # "stamp"}}

HStep ==
    \/ (Boot \/ Write \/ Finish \/ DismissEdit \/ EditSettings) /\ UNCHANGED <<book, torn>>
    \/ \E src, dst \in Slots :
          /\ Copy(src, dst)
          /\ book' = [book EXCEPT ![dst] = book[src]]
          /\ torn' = IF src \in torn THEN torn \union {dst} ELSE torn \ {dst}
    \/ \E img \in Images :
          /\ Pull(img)
          /\ book' = [book EXCEPT ![WORKING] = Meaning(img, Current)]
          /\ torn' = torn \ {WORKING}
    \/ /\ Reset
       /\ book' = [s \in Slots |-> [f \in DOMAIN Fields |-> "D"]]
       /\ torn' = {}
    \/ \E saved \in Screens :
          /\ SaveScreen(saved)
          /\ book' = [book EXCEPT ![WORKING] = settings]
          /\ UNCHANGED torn
    \/ /\ PowerLoss
       /\ torn' = torn \union (IF version = Current THEN Unfinished ELSE {})
       /\ UNCHANGED book

CHSpec == CHInit /\ [][HStep]_chVars

\* Every profile that no interrupted job was still writing means what the
\* user last put there, whatever layout wrote it and however the operations,
\* boots and power losses followed each other: a migration neither loses nor
\* reinterprets a value, and none runs twice.
BookKept ==
    phase = "ready" => \A s \in Slots \ torn : Meaning(store[s], Current) = book[s]

\* Outside an edit the settings the cab runs on are those of the working
\* profile in EEPROM, torn or not: a reboot changes nothing.
LiveIsStored == phase = "ready" => settings = Meaning(store[WORKING], Current)

\* Both together, whatever happens.
StoreKept == BookKept /\ LiveIsStored

CTypeOK ==
    /\ version \in (1..Current) \union {BLANK}
    /\ store \in [Slots -> [Cells -> Kinds]]
    /\ settings \in [DOMAIN Fields -> Kinds]
    /\ phase \in {"off", "busy", "ready", "editing"}
    /\ \A k \in DOMAIN job : job[k].slot \in Slots /\ job[k].cell \in Cells
    /\ jobs \in 0..MaxJobs
    /\ book \in [Slots -> [DOMAIN Fields -> Kinds]]
    /\ torn \subseteq Slots
=============================================================================
