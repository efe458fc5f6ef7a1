-------------------------- MODULE ValidationProofs --------------------------
(***************************************************************************)
(* Proofs about Validation, for any upload: any number of rows and columns *)
(* of any texts.                                                           *)
(***************************************************************************)
EXTENDS Validation, FiniteSetTheorems, TLAPS

-----------------------------------------------------------------------------
(* The rules: what the code computes is what the codes mean. *)

(* The names in a header, counted as a set, fall short of its length exactly *)
(* when two columns share a name.                                            *)
LEMMA RepeatedNames ==
  ASSUME NEW row \in Seq(Cell)
  PROVE  Len(row) # Cardinality(Names(row)) <=> Repeated(row)
<1> DEFINE f == [i \in 1..Len(row) |-> Strip[row[i]]]
<1>1. Len(row) \in Nat /\ DOMAIN row = 1..Len(row)
  OBVIOUS
<1>2. IsFiniteSet(1..Len(row)) /\ Cardinality(1..Len(row)) = Len(row)
  BY <1>1, FS_Interval, SMTT(30)
<1>3. f \in Surjection(1..Len(row), Names(row))
  BY <1>1 DEF Surjection, Names
<1>4. Cardinality(Names(row)) = Len(row) <=> f \in Injection(1..Len(row), Names(row))
  BY <1>2, <1>3, FS_Surjection
<1>5. f \in Injection(1..Len(row), Names(row)) <=> ~Repeated(row)
  BY <1>1, <1>3, ZenonT(60) DEF Injection, IsInjective, Surjection, Repeated
<1> QED
  BY <1>4, <1>5

(* The size checks let exactly the sizes from one to the limit pass. *)
LEMMA SizeRule ==
  ASSUME NEW n \in Nat
  PROVE  SizeErrors(n) = {} <=> n \in 1..MaxSize
BY ValidationAssumption DEF SizeErrors

(* A bad name, a bad size and unreadable bytes are each the only finding. *)
LEMMA NameViolations ==
  ASSUME NEW f \in Upload, filename \in Filename, filename # "csv"
  PROVE  FilenameErrors # {} /\ Violations(filename, f) = FilenameErrors
<1>1. CASE filename = "missing"
  BY <1>1 DEF FilenameErrors, Violations, Code, Columned, Headed, Parsed, Sized
<1>2. CASE filename = "other"
  BY <1>2 DEF FilenameErrors, Violations, Code, Columned, Headed, Parsed, Sized
<1> QED
  BY <1>1, <1>2 DEF Filename

LEMMA SizeViolations ==
  ASSUME NEW f \in Upload, filename = "csv", SizeErrors(f.size) # {}
  PROVE  Violations(filename, f) = SizeErrors(f.size)
<1>1. f.size \in Nat /\ f.size \notin 1..MaxSize
  BY SizeRule DEF Upload
<1>2. CASE f.size = 0
  BY <1>2, ValidationAssumption
  DEF SizeErrors, Violations, Code, Columned, Headed, Parsed, Sized
<1>3. CASE f.size > MaxSize
  BY <1>1, <1>3, ValidationAssumption
  DEF SizeErrors, Violations, Code, Columned, Headed, Parsed, Sized
<1> QED
  BY <1>1, <1>2, <1>3, ValidationAssumption

LEMMA ParseViolations ==
  ASSUME NEW f \in Upload, Sized(filename, f), ~f.readable
  PROVE  Violations(filename, f) = {"CSV_PARSE_ERROR"}
<1>1. filename = "csv" /\ f.size \in Nat /\ f.size # 0 /\ ~(f.size > MaxSize)
  BY ValidationAssumption DEF Sized, Upload
<1> QED
  BY <1>1 DEF Violations, Code, Columned, Headed, Parsed

-----------------------------------------------------------------------------
(* The loop over trailing rows. *)

(* The rows behind the first n have no text. *)
BlankBehind(f, n) == \A m \in DOMAIN f.rows : m > n => BlankRow(f.rows[m])

LEMMA NothingFilled ==
  ASSUME NEW f \in Upload, BlankBehind(f, 0)
  PROVE  Filled(f) = {}
BY DEF Filled, BlankBehind, Upload

(* If the loop stops at row n, then n - 1 rows count as data: those behind   *)
(* the header that have text or are followed by a row with text.             *)
LEMMA DataRows ==
  ASSUME NEW f \in Upload, NEW n \in 1..Len(f.rows), ~BlankRow(f.rows[n]), BlankBehind(f, n)
  PROVE  /\ Filled(f) # {}
         /\ Filled(f) \subseteq {1} <=> n - 1 = 0
         /\ Cardinality({i \in DOMAIN f.rows : i # 1 /\ \E m \in Filled(f) : m >= i}) = n - 1
<1>1. Len(f.rows) \in Nat /\ DOMAIN f.rows = 1..Len(f.rows)
  BY DEF Upload
<1>2. n \in Filled(f) /\ \A m \in Filled(f) : m \in 1..n
  BY <1>1 DEF Filled, BlankBehind
<1>3. {i \in DOMAIN f.rows : i # 1 /\ \E m \in Filled(f) : m >= i} = 2..n
  BY <1>1, <1>2
<1>4. Cardinality(2..n) = n - 1
  BY <1>1, FS_Interval
<1>5. Filled(f) \subseteq {1} <=> n - 1 = 0
  <2>1. CASE n = 1
    <3>1. \A m \in Filled(f) : m = 1
      BY <1>2, <2>1
    <3> QED
      BY <2>1, <3>1
  <2>2. CASE n # 1
    BY <1>1, <1>2, <2>2
  <2> QED
    BY <2>1, <2>2
<1> QED
  BY <1>2, <1>3, <1>4, <1>5

(* What the checks of the header find is what their codes mean. *)
LEMMA HeaderViolations ==
  ASSUME NEW f \in Upload, Parsed(filename, f), NEW n \in 1..Len(f.rows),
         ~BlankRow(f.rows[n]), BlankBehind(f, n), f.rows[1] # <<>>
  PROVE  Columned(filename, f) /\ Violations(filename, f) = HeaderErrors(f.rows[1], n - 1)
<1>1. /\ filename = "csv" /\ f.size \in Nat /\ f.size # 0 /\ ~(f.size > MaxSize) /\ f.readable
      /\ Sized(filename, f)
  BY ValidationAssumption DEF Parsed, Sized, Upload
<1>2. Filled(f) # {} /\ (Filled(f) \subseteq {1} <=> n - 1 = 0)
  BY DataRows
<1>3. Headed(filename, f) /\ Columned(filename, f)
  BY <1>2 DEF Headed, Columned
<1>4. f.rows[1] \in Seq(Cell)
  BY DEF Upload
<1>5. Len(f.rows[1]) # Cardinality(Names(f.rows[1])) <=> Repeated(f.rows[1])
  BY <1>4, RepeatedNames
<1>6. Blank \in Names(f.rows[1]) <=> Unnamed(f.rows[1])
  BY DEF Names, Unnamed
<1> QED
  BY <1>1, <1>2, <1>3, <1>5, <1>6 DEF Violations, HeaderErrors, Code

-----------------------------------------------------------------------------
(* The inductive invariant: what a request has at each program point. *)

Reads ==
  /\ pc \in {"start", "head", "get", "refused"} => content = None
  /\ pc \in {"file", "read", "trim"} => content # None
  /\ pc # "done" => counts = None
  /\ pc \in {"start", "head"} => ~replaced
  /\ content # None /\ ~replaced => content = object

Passed ==
  /\ pc \in {"head", "get"} => filename = "csv"
  /\ pc = "get" /\ ~replaced => SizeErrors(object.size) = {}
  /\ pc \in {"read", "trim"} => Sized(filename, content)
  /\ pc = "trim" => /\ content.readable
                    /\ kept <= Len(content.rows)
                    /\ BlankBehind(content, kept)

(* The size of the response has passed the rules; without a replacement it   *)
(* is the size of the bytes.                                                 *)
Sizes ==
  /\ pc = "get" => size \in 1..MaxSize /\ (~replaced => size = object.size)
  /\ pc \in {"file", "read", "trim"} /\ ~replaced => size = content.size
  /\ pc \in {"file", "read", "trim"} /\ path = "s3" => size \in 1..MaxSize
  /\ path = "multipart" => ~replaced /\ pc \notin {"head", "get"}
  /\ SizeSound

Verdicts == VerdictFollowsBytes /\ PathsAgree /\ CountsHonest

IInv == TypeOK /\ Reads /\ Passed /\ Verdicts

(* A step that does not end the request owes no verdict. *)
LEMMA NoVerdict ==
  ASSUME pc' \notin {"refused", "done"}
  PROVE  Verdicts'
BY DEF Verdicts, VerdictFollowsBytes, PathsAgree, CountsHonest

(* Nor does one that ends it with the codes of its bytes and no counts, if   *)
(* these bytes have no header with columns.                                  *)
LEMMA UncountedVerdict ==
  ASSUME IInv, content # None, pc' = "done", counts' = None,
         content' = content, filename' = filename, object' = object, replaced' = replaced,
         errors' = Violations(filename, content), ~Columned(filename, content)
  PROVE  Verdicts'
<1>1. ~replaced => content = object
  BY DEF IInv, Reads
<1> QED
  BY <1>1 DEF Verdicts, VerdictFollowsBytes, PathsAgree, CountsHonest

LEMMA InitInvariant == Init => IInv
<1> SUFFICES ASSUME Init PROVE IInv
  OBVIOUS
<1>1. TypeOK
  BY ValidationAssumption DEF Init, TypeOK
<1>2. Reads /\ Passed
  BY DEF Init, Reads, Passed
<1>3. Verdicts
  BY DEF Init, Verdicts, VerdictFollowsBytes, PathsAgree, CountsHonest
<1> QED
  BY <1>1, <1>2, <1>3 DEF IInv

LEMMA ProcessIntakeInvariant ==
  ASSUME IInv, ProcessIntake
  PROVE  IInv'
<1>1. TypeOK'
  BY DEF IInv, TypeOK, ProcessIntake, Unchanging, Upload
<1>2. Reads' /\ Passed'
  BY ValidationAssumption DEF IInv, TypeOK, Reads, Passed, ProcessIntake, Unchanging
<1>3. Verdicts'
  BY NoVerdict DEF ProcessIntake
<1> QED
  BY <1>1, <1>2, <1>3 DEF IInv

LEMMA CreatePresignedUploadInvariant ==
  ASSUME IInv, CreatePresignedUpload
  PROVE  IInv'
<1>1. FilenameErrors \subseteq Code /\ (FilenameErrors = {} <=> filename = "csv")
  BY DEF IInv, TypeOK, FilenameErrors, Filename, Code
<1>2. TypeOK'
  BY <1>1 DEF IInv, TypeOK, CreatePresignedUpload, Unchanging
<1>3. Reads' /\ Passed'
  BY <1>1 DEF IInv, Reads, Passed, CreatePresignedUpload, Unchanging
<1>4. Verdicts'
  <2>1. CASE FilenameErrors = {}
    BY <2>1, NoVerdict DEF CreatePresignedUpload
  <2>2. CASE FilenameErrors # {}
    <3>1. object \in Upload /\ filename \in Filename /\ filename # "csv"
      BY <1>1, <2>2 DEF IInv, TypeOK
    <3>2. Violations(filename, object) = FilenameErrors
      BY <3>1, NameViolations
    <3> QED
      BY <2>2, <3>2
      DEF CreatePresignedUpload, Unchanging, Verdicts, VerdictFollowsBytes, PathsAgree, CountsHonest
  <2> QED
    BY <2>1, <2>2
<1> QED
  BY <1>2, <1>3, <1>4 DEF IInv

LEMMA PutObjectInvariant ==
  ASSUME IInv, NEW f \in Replacement, PutObject(f)
  PROVE  IInv'
<1>1. TypeOK'
  BY ValidationAssumption DEF IInv, TypeOK, PutObject, Unchanging
<1>2. Reads' /\ Passed'
  BY DEF IInv, Reads, Passed, PutObject, Unchanging
<1>3. Verdicts'
  BY NoVerdict DEF PutObject
<1> QED
  BY <1>1, <1>2, <1>3 DEF IInv

(* Deciding on the metadata agrees with judging the object it describes. *)
LEMMA HeadObjectInvariant ==
  ASSUME IInv, HeadObject
  PROVE  IInv'
<1>1. object \in Upload /\ object.size \in Nat /\ SizeErrors(object.size) \subseteq Code
  BY DEF IInv, TypeOK, Upload, SizeErrors, Code
<1>2. TypeOK'
  BY <1>1 DEF IInv, TypeOK, HeadObject, Judge, Unchanging
<1>3. Reads' /\ Passed'
  BY <1>1 DEF IInv, Reads, Passed, HeadObject, Judge, Unchanging
<1>4. Verdicts'
  <2>1. CASE SizeErrors(object.size) = {}
    BY <2>1, NoVerdict DEF HeadObject, Judge
  <2>2. CASE SizeErrors(object.size) # {}
    <3>1. filename = "csv" /\ content = None /\ counts = None
      BY DEF IInv, Reads, Passed, HeadObject
    <3>2. Violations(filename, object) = SizeErrors(object.size)
      BY <1>1, <2>2, <3>1, SizeViolations
    <3> QED
      BY <2>2, <3>1, <3>2
      DEF HeadObject, Judge, Unchanging, Verdicts, VerdictFollowsBytes, PathsAgree, CountsHonest
  <2> QED
    BY <2>1, <2>2
<1> QED
  BY <1>2, <1>3, <1>4 DEF IInv

LEMMA GetObjectInvariant ==
  ASSUME IInv, GetObject
  PROVE  IInv'
<1>1. TypeOK'
  BY DEF IInv, TypeOK, GetObject, Unchanging
<1>2. Reads' /\ Passed'
  BY ValidationAssumption DEF IInv, TypeOK, Reads, Passed, GetObject, Unchanging
<1>3. Verdicts'
  BY NoVerdict DEF GetObject
<1> QED
  BY <1>1, <1>2, <1>3 DEF IInv
(* The bytes at hand decide, whatever HeadObject said of an earlier object. *)
LEMMA ValidateFileInvariant ==
  ASSUME IInv, ValidateFile
  PROVE  IInv'
<1> DEFINE found == IF FilenameErrors # {} THEN FilenameErrors ELSE SizeErrors(content.size)
<1>1. content \in Upload /\ content # None /\ content.size \in Nat /\ filename \in Filename
  BY DEF IInv, TypeOK, Reads, ValidateFile, Upload
<1>2. found \subseteq Code /\ (FilenameErrors = {} <=> filename = "csv")
  BY <1>1 DEF FilenameErrors, SizeErrors, Filename, Code
<1>3. found = {} => Sized(filename, content)
  BY <1>1, <1>2, SizeRule DEF Sized
<1>4. found # {} => Violations(filename, content) = found /\ ~Columned(filename, content)
  <2>1. CASE filename # "csv"
    BY <1>1, <1>2, <2>1, NameViolations DEF Columned, Headed, Parsed, Sized
  <2>2. CASE filename = "csv"
    BY <1>1, <1>2, <2>2, SizeViolations, SizeRule DEF Columned, Headed, Parsed, Sized
  <2> QED
    BY <2>1, <2>2
<1>5. TypeOK'
  BY <1>2 DEF IInv, TypeOK, ValidateFile, Judge, Unchanging
<1>6. Reads' /\ Passed'
  BY <1>3 DEF IInv, Reads, Passed, ValidateFile, Judge, Unchanging
<1>7. Verdicts'
  <2>1. CASE found = {}
    BY <2>1, NoVerdict DEF ValidateFile, Judge
  <2>2. CASE found # {}
    <3>1. counts = None
      BY DEF IInv, Reads, ValidateFile
    <3> QED
      BY <1>1, <1>4, <2>2, <3>1, UncountedVerdict DEF ValidateFile, Judge, Unchanging
  <2> QED
    BY <2>1, <2>2
<1> QED
  BY <1>5, <1>6, <1>7 DEF IInv

LEMMA ReadRowsInvariant ==
  ASSUME IInv, ReadRows
  PROVE  IInv'
<1>1. /\ content \in Upload /\ content # None /\ counts = None
      /\ Sized(filename, content) /\ Len(content.rows) \in Nat
  BY DEF IInv, TypeOK, Reads, Passed, ReadRows, Upload
<1>2. TypeOK'
  BY <1>1 DEF IInv, TypeOK, ReadRows, Judge, Unchanging, Code
<1>3. Reads' /\ Passed'
  <2>1. content.rows \in Seq(Seq(Cell))
    BY <1>1 DEF Upload
  <2>2. BlankBehind(content, Len(content.rows))
    BY <1>1, <2>1 DEF BlankBehind
  <2> QED
    BY <1>1, <2>2 DEF IInv, Reads, Passed, ReadRows, Judge, Unchanging
<1>4. Verdicts'
  <2>1. CASE content.readable
    BY <2>1, NoVerdict DEF ReadRows, Judge
  <2>2. CASE ~content.readable
    <3>1. Violations(filename, content) = {"CSV_PARSE_ERROR"}
      BY <1>1, <2>2, ParseViolations
    <3>2. ~Columned(filename, content)
      BY <2>2 DEF Columned, Headed, Parsed
    <3> QED
      BY <1>1, <2>2, <3>1, <3>2, UncountedVerdict DEF ReadRows, Judge, Unchanging
  <2> QED
    BY <2>1, <2>2
<1> QED
  BY <1>2, <1>3, <1>4 DEF IInv

(* What is known whenever the loop is about to look at the last row. *)
LEMMA InTheLoop ==
  ASSUME IInv, pc = "trim"
  PROVE  /\ content \in Upload /\ content # None /\ counts = None
         /\ Parsed(filename, content) /\ Sized(filename, content) /\ content.readable
         /\ content.rows \in Seq(Seq(Cell)) /\ Len(content.rows) \in Nat
         /\ kept \in 0..Len(content.rows) /\ BlankBehind(content, kept)
BY DEF IInv, TypeOK, Reads, Passed, Parsed, Upload

LEMMA DropTrailingRowInvariant ==
  ASSUME IInv, DropTrailingRow
  PROVE  IInv'
<1>1. /\ kept \in 1..Len(content.rows) /\ BlankRow(content.rows[kept])
      /\ content.rows \in Seq(Seq(Cell)) /\ BlankBehind(content, kept)
  BY InTheLoop DEF DropTrailingRow, Trimmed
<1>2. BlankBehind(content, kept - 1)
  BY <1>1 DEF BlankBehind
<1>3. TypeOK'
  BY <1>1 DEF IInv, TypeOK, DropTrailingRow, Unchanging
<1>4. Reads' /\ Passed'
  BY <1>1, <1>2 DEF IInv, Reads, Passed, DropTrailingRow, Unchanging
<1>5. Verdicts'
  BY NoVerdict DEF DropTrailingRow
<1> QED
  BY <1>3, <1>4, <1>5 DEF IInv

LEMMA HeaderMissingInvariant ==
  ASSUME IInv, HeaderMissing
  PROVE  IInv'
<1>1. pc = "trim" /\ kept = 0
  BY DEF HeaderMissing
<1>2. content \in Upload /\ Filled(content) = {}
  BY <1>1, InTheLoop, NothingFilled
<1>3. ~Columned(filename, content) /\ Violations(filename, content) = {"CSV_HEADER_MISSING"}
  <2>1. /\ filename = "csv" /\ content.size # 0 /\ ~(content.size > MaxSize) /\ content.readable
        /\ Sized(filename, content) /\ Parsed(filename, content)
    BY <1>1, InTheLoop, ValidationAssumption DEF Sized
  <2> QED
    BY <1>2, <2>1 DEF Violations, Columned, Headed, Code
<1>4. TypeOK'
  BY DEF IInv, TypeOK, HeaderMissing, Judge, Unchanging, Code
<1>5. Reads' /\ Passed'
  BY DEF IInv, Reads, Passed, HeaderMissing, Judge, Unchanging
<1>6. Verdicts'
  BY <1>1, <1>3, InTheLoop, UncountedVerdict DEF HeaderMissing, Judge, Unchanging
<1> QED
  BY <1>4, <1>5, <1>6 DEF IInv

LEMMA NoColumnsInvariant ==
  ASSUME IInv, NoColumns
  PROVE  IInv'
<1>1. pc = "trim" /\ kept > 0 /\ ~BlankRow(content.rows[kept]) /\ content.rows[1] = <<>>
  BY InTheLoop DEF NoColumns, Trimmed
<1>2. content \in Upload /\ kept \in 1..Len(content.rows) /\ BlankBehind(content, kept)
  BY <1>1, InTheLoop
<1>3. Filled(content) # {}
  BY <1>1, <1>2, DataRows
<1>4. ~Columned(filename, content) /\ Violations(filename, content) = {"CSV_NO_COLUMNS"}
  <2>1. /\ filename = "csv" /\ content.size # 0 /\ ~(content.size > MaxSize) /\ content.readable
        /\ Sized(filename, content) /\ Parsed(filename, content)
    BY <1>1, InTheLoop, ValidationAssumption DEF Sized
  <2> QED
    BY <1>1, <1>3, <2>1 DEF Violations, Columned, Headed, Code
<1>5. TypeOK'
  BY DEF IInv, TypeOK, NoColumns, Judge, Unchanging, Code
<1>6. Reads' /\ Passed'
  BY DEF IInv, Reads, Passed, NoColumns, Judge, Unchanging
<1>7. Verdicts'
  BY <1>1, <1>4, InTheLoop, UncountedVerdict DEF NoColumns, Judge, Unchanging
<1> QED
  BY <1>5, <1>6, <1>7 DEF IInv

LEMMA JudgeHeaderInvariant ==
  ASSUME IInv, JudgeHeader
  PROVE  IInv'
<1> DEFINE header == content.rows[1]
<1>1. /\ pc = "trim" /\ kept > 0 /\ ~BlankRow(content.rows[kept]) /\ header # <<>>
      /\ pc' = "done" /\ errors' = HeaderErrors(header, kept - 1)
      /\ counts' = [rows |-> kept - 1, columns |-> Len(header)]
      /\ content' = content /\ filename' = filename /\ object' = object /\ replaced' = replaced
  BY InTheLoop DEF JudgeHeader, Judge, Trimmed, Unchanging
<1>2. /\ content \in Upload /\ content # None /\ Parsed(filename, content)
      /\ kept \in 1..Len(content.rows) /\ BlankBehind(content, kept)
  BY <1>1, InTheLoop
<1>3. Columned(filename, content) /\ Violations(filename, content) = HeaderErrors(header, kept - 1)
  BY <1>1, <1>2, HeaderViolations
<1>4. Cardinality({n \in DOMAIN content.rows : n # 1 /\ \E m \in Filled(content) : m >= n})
        = kept - 1
  BY <1>1, <1>2, DataRows
<1>5. TypeOK'
  <2>1. HeaderErrors(header, kept - 1) \subseteq Code
    BY DEF HeaderErrors, Code
  <2>2. header \in Seq(Cell)
    BY <1>2 DEF Upload
  <2>3. counts' \in Counts
    BY <1>1, <1>2, <2>2 DEF Counts
  <2> QED
    BY <1>1, <2>1, <2>3 DEF IInv, TypeOK, JudgeHeader, Unchanging
<1>6. Reads' /\ Passed'
  BY <1>1 DEF IInv, Reads, Passed
<1>7. Verdicts'
  <2>1. ~replaced => content = object
    BY <1>2 DEF IInv, Reads
  <2> QED
    BY <1>1, <1>2, <1>3, <1>4, <2>1
    DEF Verdicts, VerdictFollowsBytes, PathsAgree, CountsHonest
<1> QED
  BY <1>5, <1>6, <1>7 DEF IInv

LEMMA NextInvariant == IInv /\ [Next]_vars => IInv'
<1> SUFFICES ASSUME IInv, [Next]_vars PROVE IInv'
  OBVIOUS
<1>1. CASE UNCHANGED vars
  BY <1>1 DEF vars, IInv, TypeOK, Reads, Passed, Verdicts, VerdictFollowsBytes, PathsAgree,
              CountsHonest
<1> QED
  BY <1>1, ProcessIntakeInvariant, CreatePresignedUploadInvariant, PutObjectInvariant,
     HeadObjectInvariant, GetObjectInvariant, ValidateFileInvariant, ReadRowsInvariant,
     DropTrailingRowInvariant, HeaderMissingInvariant, NoColumnsInvariant, JudgeHeaderInvariant
  DEF Next

(* A step that only moves on, or ends the request with findings, keeps the   *)
(* size right.                                                               *)
LEMMA SizesStayRight ==
  ASSUME Sizes, pc \in {"file", "read", "trim"}, pc' \in {"file", "read", "trim", "done"},
         pc' = "done" => errors' # {},
         size' = size, content' = content, replaced' = replaced, path' = path
  PROVE  Sizes'
BY DEF Sizes, SizeSound

LEMMA SizesInvariant == IInv /\ Sizes /\ [Next]_vars => Sizes'
<1> SUFFICES ASSUME IInv, Sizes, [Next]_vars PROVE Sizes'
  OBVIOUS
<1>1. CASE ProcessIntake
  BY <1>1 DEF IInv, Reads, Sizes, SizeSound, ProcessIntake, Unchanging
<1>2. CASE CreatePresignedUpload
  BY <1>2 DEF Sizes, SizeSound, CreatePresignedUpload, Unchanging
<1>3. CASE \E f \in Replacement : PutObject(f)
  <2>1. path # "multipart"
    BY <1>3 DEF Sizes, PutObject
  <2> QED
    BY <1>3, <2>1 DEF Sizes, SizeSound, PutObject, Unchanging
<1>4. CASE HeadObject
  <2>1. object.size \in Nat /\ (SizeErrors(object.size) = {} <=> object.size \in 1..MaxSize)
    BY SizeRule DEF IInv, TypeOK, Upload
  <2> QED
    BY <1>4, <2>1 DEF Sizes, SizeSound, HeadObject, Judge, Unchanging
<1>5. CASE GetObject
  BY <1>5 DEF Sizes, SizeSound, GetObject, Unchanging
<1>6. CASE ValidateFile \/ ReadRows \/ DropTrailingRow \/ HeaderMissing \/ NoColumns
  BY <1>6, SizesStayRight
  DEF ValidateFile, ReadRows, DropTrailingRow, HeaderMissing, NoColumns, Judge, Unchanging
<1>7. CASE JudgeHeader
  <2>1. Parsed(filename, content) /\ Sized(filename, content) /\ pc = "trim"
    BY <1>7, InTheLoop DEF JudgeHeader
  <2>2. content.size \in 1..MaxSize /\ size \in 1..MaxSize /\ (~replaced => size = content.size)
    BY <2>1 DEF Sized, Sizes, IInv, TypeOK
  <2> QED
    BY <1>7, <2>1, <2>2 DEF Sizes, SizeSound, JudgeHeader, Judge, Unchanging
<1>8. CASE UNCHANGED vars
  BY <1>8 DEF vars, Sizes, SizeSound
<1> QED
  BY <1>1, <1>2, <1>3, <1>4, <1>5, <1>6, <1>7, <1>8 DEF Next

-----------------------------------------------------------------------------

THEOREM Invariance == Spec => []IInv
BY InitInvariant, NextInvariant, PTL DEF Spec

(* The fields of a request keep their types; the row counter never goes     *)
(* below zero, so the loop never looks at a row that is not there.          *)
THEOREM TypeCorrect == Spec => []TypeOK
<1>1. IInv => TypeOK
  BY DEF IInv
<1> QED
  BY <1>1, Invariance, PTL

(* For every upload and every replacement, a verdict on downloaded bytes    *)
(* reports exactly the rules of validators.py that these bytes break.       *)
THEOREM VerdictIsAboutBytes == Spec => []VerdictFollowsBytes
<1>1. IInv => VerdictFollowsBytes
  BY DEF IInv, Verdicts
<1> QED
  BY <1>1, Invariance, PTL

(* The multipart path and the S3 path accept the same uploads, and refuse   *)
(* the others with the same codes (validators.py:17-18).                    *)
THEOREM PathsDoAgree == Spec => []PathsAgree
<1>1. IInv => PathsAgree
  BY DEF IInv, Verdicts
<1> QED
  BY <1>1, Invariance, PTL

(* Rows and columns are counted right, or not reported (schemas.py:107-110). *)
THEOREM CountsAreHonest == Spec => []CountsHonest
<1>1. IInv => CountsHonest
  BY DEF IInv, Verdicts
<1> QED
  BY <1>1, Invariance, PTL

(* For every upload and every replacement, a client that reads VALIDATED    *)
(* reads a size the rules allow, and the size of the bytes that were judged  *)
(* unless the object was replaced after HeadObject.                          *)
THEOREM SizeIsSound == Spec => []SizeSound
<1>1. Init => Sizes
  BY DEF Init, Sizes, SizeSound
<1>2. IInv /\ Sizes /\ [Next]_vars => Sizes'
  BY SizesInvariant
<1>3. Sizes => SizeSound
  BY DEF Sizes
<1> QED
  BY <1>1, <1>2, <1>3, Invariance, PTL DEF Spec

-----------------------------------------------------------------------------
(* The S3 path implements Intake. *)

(* Length and flag are all that a verdict needs: the codes of an upload are  *)
(* none exactly if Intake accepts what it sees of it.                        *)
LEMMA SeenJudged ==
  ASSUME NEW f \in Upload, filename = "csv"
  PROVE  Violations(filename, f) = {} <=> I!ValidateContent(Seen(f)) = "VALIDATED"
<1> DEFINE wellFormed == /\ f.readable
                         /\ ~(Filled(f) \subseteq {1})
                         /\ f.rows[1] # <<>> /\ ~Unnamed(f.rows[1]) /\ ~Repeated(f.rows[1])
<1>1. f.size \in Nat /\ MaxSize \in Nat /\ MaxSize > 0
  BY ValidationAssumption DEF Upload
<1>2. I!ValidateContent(Seen(f)) = "VALIDATED" <=> f.size # 0 /\ ~(f.size > MaxSize) /\ wellFormed
  BY <1>1 DEF I!ValidateContent, I!ValidateFile, Seen
<1>3. ASSUME f.size # 0, ~(f.size > MaxSize), wellFormed PROVE Violations(filename, f) = {}
  <2>1. Sized(filename, f) /\ Parsed(filename, f)
    BY <1>1, <1>3 DEF Sized, Parsed
  <2>2. Headed(filename, f) /\ Columned(filename, f)
    BY <1>3, <2>1 DEF Headed, Columned
  <2> QED
    BY <1>3, <2>1, <2>2 DEF Violations
<1>4. ASSUME Violations(filename, f) = {} PROVE f.size # 0 /\ ~(f.size > MaxSize) /\ wellFormed
  <2>1. f.size # 0 /\ ~(f.size > MaxSize)
    BY <1>4 DEF Violations, Code
  <2>2. Sized(filename, f)
    BY <1>1, <2>1 DEF Sized
  <2>3. f.readable /\ Parsed(filename, f)
    BY <1>4, <2>2 DEF Violations, Code, Parsed
  <2>4. Headed(filename, f)
    BY <1>4, <2>3 DEF Violations, Code, Headed
  <2>5. f.rows[1] # <<>> /\ Columned(filename, f)
    BY <1>4, <2>4 DEF Violations, Code, Columned
  <2>6. ~Unnamed(f.rows[1]) /\ ~Repeated(f.rows[1]) /\ ~(Filled(f) \subseteq {1})
    BY <1>4, <2>5 DEF Violations, Code
  <2> QED
    BY <2>1, <2>3, <2>5, <2>6
<1> QED
  BY <1>2, <1>3, <1>4

(* Nothing happens to Intake while the bytes are the same and the verdict    *)
(* on them is still to come out, or comes out.                               *)
LEMMA Stutters ==
  ASSUME object' = object, content' = content, Point' = Point
  PROVE  UNCHANGED I!vars
BY DEF I!vars, I!jobVars, I!threadVars, Seen, Filled, BlankRow, Unnamed, Repeated

(* A judgement in progress ends with the codes of the bytes.                 *)
LEMMA VerdictComesOut ==
  ASSUME IInv', pc \in {"file", "read", "trim"}, pc' \in {"file", "read", "trim", "done"},
         content # None, content' = content, filename' = filename
  PROVE  Point' = Point
<1>1. Violations(filename, content)' = Violations(filename, content)
  BY DEF Violations, Columned, Headed, Parsed, Sized, Filled, BlankRow, Unnamed, Repeated
<1>2. pc' = "done" => errors' = Violations(filename, content)'
  BY DEF IInv, Verdicts, VerdictFollowsBytes
<1> QED
  BY <1>1, <1>2 DEF Point

LEMMA PutMaps ==
  ASSUME NEW f \in Replacement, PutObject(f)
  PROVE  I!Next
<1>1. Point' = Point
  BY DEF PutObject, Point
<1>2. I!PutObject("job", Seen(f))
  BY <1>1, ZenonT(60)
  DEF PutObject, I!PutObject, I!threadVars, Seen, Filled, BlankRow, Unnamed, Repeated
<1> QED
  BY <1>2 DEF I!Next, I!Client

LEMMA HeadMaps ==
  ASSUME IInv, HeadObject
  PROVE  I!Next
<1>1. object.size \in Nat /\ MaxSize \in Nat /\ MaxSize > 0
  BY ValidationAssumption DEF IInv, TypeOK, Upload
<1>2. /\ Seen(object) # None
      /\ Seen(object).size = 0 \/ Seen(object).size > MaxSize <=> SizeErrors(object.size) # {}
  <2>1. /\ Seen(object) \in [size : Nat, csv : BOOLEAN]
        /\ Seen(object).size = IF object.size > MaxSize THEN MaxSize + 1 ELSE object.size
    BY <1>1 DEF IInv, TypeOK, Upload, Seen
  <2>2. Seen(object) # None
    BY <2>1, ValidationAssumption
  <2>3. SizeErrors(object.size) # {} <=> object.size = 0 \/ object.size > MaxSize
    BY DEF SizeErrors
  <2>4. Seen(object).size = 0 \/ Seen(object).size > MaxSize
          <=> object.size = 0 \/ object.size > MaxSize
    BY <1>1, <2>1
  <2> QED
    BY <2>2, <2>3, <2>4
<1>3. Point = "head" /\ Point' = IF SizeErrors(object.size) = {} THEN "get" ELSE "rejected"
  BY DEF HeadObject, Judge, Point
<1>4. Seen(object)' = Seen(object) /\ (content = None /\ content' = None)
  BY DEF IInv, Reads, HeadObject, Seen, Filled, BlankRow, Unnamed, Repeated
<1> HIDE DEF Seen, Point
<1>5. I!HeadObject("request")
  BY <1>2, <1>3, <1>4 DEF I!HeadObject, I!Goto, I!jobVars
<1> QED
  BY <1>5 DEF I!Next, I!Serve

LEMMA GetMaps ==
  ASSUME IInv, GetObject
  PROVE  I!Next
<1>1. filename = "csv" /\ object \in Upload /\ object # None /\ content = None /\ content' = object
  BY ValidationAssumption DEF IInv, TypeOK, Reads, Passed, GetObject
<1>2. Violations(filename, object) = {} <=> I!ValidateContent(Seen(object)) = "VALIDATED"
  BY <1>1, SeenJudged
<1>3. Seen(object) # None
  <2>1. Seen(object) \in [size : Nat, csv : BOOLEAN]
    BY <1>1, ValidationAssumption DEF Upload, Seen
  <2> QED
    BY <2>1, ValidationAssumption
<1>4. Seen(object)' = Seen(object) /\ Seen(content)' = Seen(object)
  BY DEF GetObject, Seen, Filled, BlankRow, Unnamed, Repeated
<1>5. Violations(filename, content)' = Violations(filename, object)
  BY DEF GetObject, Unchanging, Violations, Columned, Headed, Parsed, Sized, Filled, BlankRow,
         Unnamed, Repeated
<1>6. Point = "get" /\ Point' = IF Violations(filename, object) = {} THEN "check" ELSE "rejected"
  BY <1>5 DEF GetObject, Point
<1>7. I!GetObject("request")
  BY <1>1, <1>2, <1>3, <1>4, <1>6 DEF I!GetObject, I!Goto, I!jobVars
<1> QED
  BY <1>7 DEF I!Next, I!Serve

(* For files with any number of rows and columns, the checks and the loop    *)
(* of the S3 path amount to the one step in which Intake judges an object.   *)
THEOREM ImplementsIntake == Spec => RefinesIntake
<1>1. ASSUME IInv, IInv', [Next]_vars
      PROVE  [path = "s3" /\ pc # "start" => I!Next]_(I!vars)
  <2> SUFFICES ASSUME path = "s3", pc # "start" PROVE I!Next \/ UNCHANGED I!vars
    OBVIOUS
  <2>1. CASE \E f \in Replacement : PutObject(f)
    BY <2>1, PutMaps
  <2>2. CASE HeadObject
    BY <1>1, <2>2, HeadMaps
  <2>3. CASE GetObject
    BY <1>1, <2>3, GetMaps
  <2>4. CASE \/ ValidateFile \/ ReadRows \/ DropTrailingRow \/ HeaderMissing \/ NoColumns
             \/ JudgeHeader
    <3>1. /\ pc \in {"file", "read", "trim"} /\ pc' \in {"file", "read", "trim", "done"}
          /\ content' = content /\ filename' = filename /\ object' = object
      BY <2>4
      DEF ValidateFile, ReadRows, DropTrailingRow, HeaderMissing, NoColumns, JudgeHeader, Judge,
          Unchanging
    <3>2. content # None
      BY <1>1, <3>1 DEF IInv, Reads
    <3> QED
      BY <1>1, <3>1, <3>2, VerdictComesOut, Stutters
  <2>5. CASE UNCHANGED vars
    <3>1. Point' = Point
      BY <2>5
      DEF vars, Point, Violations, Columned, Headed, Parsed, Sized, Filled, BlankRow, Unnamed,
          Repeated
    <3> QED
      BY <2>5, <3>1, Stutters DEF vars
  <2> QED
    BY <1>1, <2>1, <2>2, <2>3, <2>4, <2>5 DEF Next, ProcessIntake, CreatePresignedUpload
<1> QED
  BY <1>1, Invariance, PTL DEF Spec, RefinesIntake
=============================================================================
