------------------------------ MODULE FileNames ------------------------------
(***************************************************************************)
(* The names of the files of a database (db/filename.cpp): how a number is *)
(* put into a name and found again by whoever lists the directory, Recover *)
(* and DeleteObsoleteFiles.                                                *)
(*                                                                         *)
(* A name is what follows dbname: a word, digits and another word, any of  *)
(* them possibly empty.  That MakeFileName forgets the slash before it is  *)
(* in DBRecovery (SlashInName).                                            *)
(*                                                                         *)
(* The names carry the component's, so that a module may extend several.   *)
(***************************************************************************)
EXTENDS Integers, Sequences

CONSTANTS
  Radix,       \* 10 in the code
  Width,       \* digits a number has at least, 6 in the code
  MaxNumber,   \* largest uint64_t
  MaxDigits    \* bound: digits in the names of strange files

ASSUME NameAssumption ==
  /\ Radix \in Nat \ {0, 1} /\ Width \in Nat \ {0}
  /\ MaxNumber \in Nat \ {0} /\ MaxDigits \in Nat

VARIABLES
  name,        \* of a file in the directory
  made         \* what it has been made for, NotOurs for a strange file

nameVars == <<name, made>>

Digit == 0..Radix - 1
Heads == {"", "MANIFEST-", "CURRENT", "LOCK", "LOG", "LOG.old"}
Tails == {"", ".log", ".sst", ".ldb", ".dbtmp", ".txt"}

NotOurs == [type |-> "none", number |-> 0]
Meant(type, number) == [type |-> type, number |-> number]
Named(head, digits, tail) == [head |-> head, digits |-> digits, tail |-> tail]

-----------------------------------------------------------------------------
(* What "%06llu" prints.                                                   *)
Digits[number \in 0..MaxNumber] ==
  IF number < Radix THEN <<number>>
  ELSE Append(Digits[number \div Radix], number % Radix)

Formatted(number) ==
  [i \in 1..Width - Len(Digits[number]) |-> 0] \o Digits[number]

(* ConsumeDecimalNumber, digit by digit.                                   *)
Value(digits) ==
  LET v[i \in 0..Len(digits)] ==
        IF i = 0 THEN 0 ELSE v[i - 1] * Radix + digits[i]
  IN v[Len(digits)]

IsNumber(digits) == digits # <<>> /\ Value(digits) <= MaxNumber

(* LogFileName, TableFileName, SSTTableFileName and TempFileName, by way of*)
(* MakeFileName, then DescriptorFileName and the names without a number.   *)
Numbered(number) ==
  {<<Meant("log", number), Named("", Formatted(number), ".log")>>,
   <<Meant("table", number), Named("", Formatted(number), ".ldb")>>,
   <<Meant("table", number), Named("", Formatted(number), ".sst")>>,
   <<Meant("temp", number), Named("", Formatted(number), ".dbtmp")>>,
   <<Meant("descriptor", number), Named("MANIFEST-", Formatted(number), "")>>}

Unnumbered ==
  {<<Meant("current", 0), Named("CURRENT", <<>>, "")>>,
   <<Meant("lock", 0), Named("LOCK", <<>>, "")>>,
   <<Meant("infolog", 0), Named("LOG", <<>>, "")>>,
   <<Meant("infolog", 0), Named("LOG.old", <<>>, "")>>}

TypeOfHead ==
  [h \in {"CURRENT", "LOCK", "LOG", "LOG.old"} |->
     IF h = "CURRENT" THEN "current" ELSE IF h = "LOCK" THEN "lock" ELSE "infolog"]

TypeOfTail ==
  [t \in {".log", ".sst", ".ldb", ".dbtmp"} |->
     IF t = ".log" THEN "log" ELSE IF t = ".dbtmp" THEN "temp" ELSE "table"]

(* Mutant: what follows the number of a MANIFEST is not looked at.         *)
ParseFileNameRest(n) ==
  CASE n.head \in DOMAIN TypeOfHead /\ n.digits = <<>> /\ n.tail = ""
         -> Meant(TypeOfHead[n.head], 0)
    [] n.head = "MANIFEST-" /\ IsNumber(n.digits)
         -> Meant("descriptor", Value(n.digits))
    [] n.head = "" /\ IsNumber(n.digits) /\ n.tail \in DOMAIN TypeOfTail
         -> Meant(TypeOfTail[n.tail], Value(n.digits))
    [] OTHER -> NotOurs

(* ParseFileName, which returns false for a file that is not ours.         *)
ParseFileName(n) ==
  CASE n.head \in DOMAIN TypeOfHead /\ n.digits = <<>> /\ n.tail = ""
         -> Meant(TypeOfHead[n.head], 0)
    [] n.head = "MANIFEST-" /\ IsNumber(n.digits) /\ n.tail = ""
         -> Meant("descriptor", Value(n.digits))
    [] n.head = "" /\ IsNumber(n.digits) /\ n.tail \in DOMAIN TypeOfTail
         -> Meant(TypeOfTail[n.tail], Value(n.digits))
    [] OTHER -> NotOurs

-----------------------------------------------------------------------------
NameInit == name = Named("CURRENT", <<>>, "") /\ made = Meant("current", 0)

(* One of the functions is called; the numbers are asserted to be positive.*)
MakeName ==
  \E m \in Unnumbered \cup UNION {Numbered(n) : n \in 1..MaxNumber} :
    made' = m[1] /\ name' = m[2]

(* Somebody puts a file into the directory.                                *)
StrangeFile ==
  \E head \in Heads, tail \in Tails, k \in 0..MaxDigits :
    \E digits \in [1..k -> Digit] :
      name' = Named(head, digits, tail) /\ made' = NotOurs

NameNext == MakeName \/ StrangeFile

NameSpec == NameInit /\ [][NameNext]_nameVars

-----------------------------------------------------------------------------
(* The forms that the comment before ParseFileName lists, and those of the *)
(* lock and of temporary files.                                            *)
Owned(n) ==
  \/ n.head \in DOMAIN TypeOfHead /\ n.digits = <<>> /\ n.tail = ""
  \/ n.head = "MANIFEST-" /\ n.digits # <<>> /\ n.tail = ""
  \/ n.head = "" /\ n.digits # <<>> /\ n.tail \in {".log", ".sst", ".ldb", ".dbtmp"}

(* The name of every file the database makes is recognised, as the type and*)
(* number it was made for, also where the number has outgrown its six      *)
(* digits: so two files of different numbers never share a name.  Nothing  *)
(* that does not have one of the forms of filename.cpp:67 is taken for a   *)
(* file of ours, which DeleteObsoleteFiles might delete.                   *)
NamesUnderstood ==
  /\ made # NotOurs => ParseFileName(name) = made
  /\ ParseFileName(name) # NotOurs => Owned(name)
=============================================================================
