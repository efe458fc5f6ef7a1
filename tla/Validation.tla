----------------------------- MODULE Validation -----------------------------
(***************************************************************************)
(* One validation request, step by step: the checks of                     *)
(* app/intake/validators.py in the order in which the two intake paths of  *)
(* app/intake/service.py apply them.  The S3 path looks at the object      *)
(* twice, and the client may replace it in between.                        *)
(***************************************************************************)
EXTENDS Naturals, FiniteSets, Sequences

CONSTANTS
  Cell,         \* cell texts of a CSV file
  Strip,        \* str.strip on them
  Blank,        \* the empty text
  File,         \* uploads: size, whether csv.reader can read it, and its rows
  Replacement,  \* bound: the uploads that may replace the first one
  MaxSize,      \* max_upload_size_bytes
  None          \* Python's None

Filename == {"missing", "other", "csv"}
Code == {"MISSING_FILENAME", "UNSUPPORTED_FILE_TYPE", "FILE_EMPTY", "FILE_TOO_LARGE",
         "CSV_PARSE_ERROR", "CSV_HEADER_MISSING", "CSV_NO_COLUMNS",
         "CSV_BLANK_COLUMN_NAME", "CSV_DUPLICATE_COLUMNS", "CSV_NO_DATA_ROWS"}
Upload == [size : Nat, readable : BOOLEAN, rows : Seq(Seq(Cell))]
Counts == [rows : Nat, columns : Nat]

ASSUME ValidationAssumption ==
  /\ MaxSize \in Nat \ {0}
  /\ Strip \in [Cell -> Cell] /\ Blank \in Cell
  /\ File \subseteq Upload
  /\ Replacement \subseteq File
  /\ None \notin Upload /\ None \notin Nat /\ None \notin Counts
  /\ None \notin [size : Nat, csv : BOOLEAN]

VARIABLES
  path,      \* which of the two intake paths serves the request
  filename,  \* what the client calls the file
  object,    \* the upload as it is now: the S3 object, or the request body
  replaced,  \* history: the object was overwritten during the request
  size,      \* size_bytes of the response
  content,   \* the bytes that were read
  kept,      \* len(rows) while trailing rows are dropped
  errors,    \* codes of the response
  counts,    \* row_count and column_count of the response
  pc

vars == <<path, filename, object, replaced, size, content, kept, errors, counts, pc>>

TypeOK ==
  /\ path \in {"multipart", "s3"}
  /\ filename \in Filename
  /\ object \in Upload
  /\ replaced \in BOOLEAN
  /\ size \in Nat \cup {None}
  /\ content \in Upload \cup {None}
  /\ kept \in Nat
  /\ errors \subseteq Code
  /\ counts \in Counts \cup {None}
  /\ pc \in {"start", "head", "get", "file", "read", "trim", "refused", "done"}

Init ==
  /\ path \in {"multipart", "s3"}
  /\ filename \in Filename
  /\ object \in File
  /\ replaced = FALSE
  /\ size = None
  /\ content = None
  /\ kept = 0
  /\ errors = {}
  /\ counts = None
  /\ pc = "start"

-----------------------------------------------------------------------------
(* The rules. *)

FilenameErrors ==
  CASE filename = "missing" -> {"MISSING_FILENAME"}
    [] filename = "other"   -> {"UNSUPPORTED_FILE_TYPE"}
    [] OTHER                -> {}

SizeErrors(n) ==
  CASE n = 0       -> {"FILE_EMPTY"}
    [] n > MaxSize -> {"FILE_TOO_LARGE"}
    [] OTHER       -> {}

BlankRow(row) == \A i \in DOMAIN row : Strip[row[i]] = Blank

Names(row) == {Strip[row[i]] : i \in DOMAIN row}

(* What is wrong with a header that has columns; all findings are reported. *)
HeaderErrors(header, dataRows) ==
  {code \in {"CSV_BLANK_COLUMN_NAME", "CSV_DUPLICATE_COLUMNS", "CSV_NO_DATA_ROWS"} :
     \/ code = "CSV_BLANK_COLUMN_NAME" /\ Blank \in Names(header)
     \/ code = "CSV_DUPLICATE_COLUMNS" /\ Len(header) # Cardinality(Names(header))
     \/ code = "CSV_NO_DATA_ROWS"      /\ dataRows = 0}

-----------------------------------------------------------------------------
(* The steps. *)

Unchanging == UNCHANGED <<path, filename>>

(* An empty list of errors lets the request go on. *)
Judge(found, next) ==
  /\ errors' = found
  /\ pc' = IF found = {} THEN next ELSE "done"

(* POST /jobs: process_intake judges the bytes of the request. *)
ProcessIntake ==
  /\ pc = "start" /\ path = "multipart"
  /\ content' = object
  /\ size' = object.size
  /\ pc' = "file"
  /\ Unchanging /\ UNCHANGED <<object, replaced, kept, errors, counts>>

(* POST /uploads: an unusable name is refused before any job exists. *)
CreatePresignedUpload ==
  /\ pc = "start" /\ path = "s3"
  /\ errors' = FilenameErrors
  /\ pc' = IF FilenameErrors = {} THEN "head" ELSE "refused"
  /\ Unchanging /\ UNCHANGED <<object, replaced, size, content, kept, counts>>

PutObject(f) ==
  /\ pc = "get"
  /\ object' = f
  /\ replaced' = TRUE
  /\ Unchanging /\ UNCHANGED <<size, content, kept, errors, counts, pc>>

(* Faulty: the metadata check refuses the limit itself. *)
HeadObjectStrict ==
  /\ pc = "head"
  /\ size' = object.size
  /\ Judge(IF object.size >= MaxSize THEN {"FILE_TOO_LARGE"} ELSE SizeErrors(object.size), "get")
  /\ Unchanging /\ UNCHANGED <<object, replaced, content, kept, counts>>

(* Faulty: only the downloaded bytes are judged. *)
HeadObjectUnchecked ==
  /\ pc = "head"
  /\ size' = object.size
  /\ pc' = "get"
  /\ Unchanging /\ UNCHANGED <<object, replaced, content, kept, errors, counts>>

(* Metadata only: size_bytes is fixed here for the rest of the request. *)
HeadObject ==
  /\ pc = "head"
  /\ size' = object.size
  /\ Judge(SizeErrors(object.size), "get")
  /\ Unchanging /\ UNCHANGED <<object, replaced, content, kept, counts>>

GetObject ==
  /\ pc = "get"
  /\ content' = object
  /\ pc' = "file"
  /\ Unchanging /\ UNCHANGED <<object, replaced, size, kept, errors, counts>>

(* Faulty: an S3 object's size is taken from HeadObject. *)
ValidateFileTrustingHead ==
  /\ pc = "file"
  /\ Judge(IF FilenameErrors # {} THEN FilenameErrors ELSE SizeErrors(size), "read")
  /\ Unchanging /\ UNCHANGED <<object, replaced, size, content, kept, counts>>

(* validate_file: the name, then the length of the bytes at hand. *)
ValidateFile ==
  /\ pc = "file"
  /\ Judge(IF FilenameErrors # {} THEN FilenameErrors ELSE SizeErrors(content.size), "read")
  /\ Unchanging /\ UNCHANGED <<object, replaced, size, content, kept, counts>>

(* Decoding and csv.reader; either may fail, with one code for both. *)
ReadRows ==
  /\ pc = "read"
  /\ Judge(IF content.readable THEN {} ELSE {"CSV_PARSE_ERROR"}, "trim")
  /\ kept' = IF content.readable THEN Len(content.rows) ELSE 0
  /\ Unchanging /\ UNCHANGED <<object, replaced, size, content, counts>>

Trimmed == kept = 0 \/ ~BlankRow(content.rows[kept])

(* Faulty: rows are dropped without looking at them. *)
DropAnyRow ==
  /\ pc = "trim"
  /\ kept' = kept - 1
  /\ Unchanging /\ UNCHANGED <<object, replaced, size, content, errors, counts, pc>>

(* One round of the loop over trailing rows. *)
DropTrailingRow ==
  /\ pc = "trim" /\ ~Trimmed
  /\ kept' = kept - 1
  /\ Unchanging /\ UNCHANGED <<object, replaced, size, content, errors, counts, pc>>

HeaderMissing ==
  /\ pc = "trim" /\ kept = 0
  /\ Judge({"CSV_HEADER_MISSING"}, "done")
  /\ Unchanging /\ UNCHANGED <<object, replaced, size, content, kept, counts>>

NoColumns ==
  /\ pc = "trim" /\ kept > 0 /\ Trimmed
  /\ content.rows[1] = <<>>
  /\ Judge({"CSV_NO_COLUMNS"}, "done")
  /\ Unchanging /\ UNCHANGED <<object, replaced, size, content, kept, counts>>

(* Faulty: every row that was read is counted. *)
CountAllRows ==
  /\ pc = "trim" /\ kept > 0 /\ Trimmed
  /\ content.rows[1] # <<>>
  /\ Judge(HeaderErrors(content.rows[1], kept - 1), "done")
  /\ counts' = [rows |-> Len(content.rows) - 1, columns |-> Len(content.rows[1])]
  /\ Unchanging /\ UNCHANGED <<object, replaced, size, content, kept>>

(* The header is readable: rows and columns are counted, and whatever else *)
(* is wrong is reported together.                                          *)
JudgeHeader ==
  /\ pc = "trim" /\ kept > 0 /\ Trimmed
  /\ content.rows[1] # <<>>
  /\ Judge(HeaderErrors(content.rows[1], kept - 1), "done")
  /\ counts' = [rows |-> kept - 1, columns |-> Len(content.rows[1])]
  /\ Unchanging /\ UNCHANGED <<object, replaced, size, content, kept>>

Next ==
  \/ ProcessIntake
  \/ CreatePresignedUpload
  \/ \E f \in Replacement : PutObject(f)
  \/ HeadObject
  \/ GetObject
  \/ ValidateFile
  \/ ReadRows
  \/ DropTrailingRow
  \/ HeaderMissing
  \/ NoColumns
  \/ JudgeHeader

Spec == Init /\ [][Next]_vars

-----------------------------------------------------------------------------
(* The rules again, stated over the upload alone: no order of steps, no loop. *)

Unnamed(row)  == \E i \in DOMAIN row : Strip[row[i]] = Blank
Repeated(row) == \E i, j \in DOMAIN row : i # j /\ Strip[row[i]] = Strip[row[j]]

Filled(f) == {n \in DOMAIN f.rows : ~BlankRow(f.rows[n])}

(* How far a file name and an upload get. *)
Sized(name, f)    == name = "csv" /\ f.size \in 1..MaxSize
Parsed(name, f)   == Sized(name, f) /\ f.readable
Headed(name, f)   == Parsed(name, f) /\ Filled(f) # {}
Columned(name, f) == Headed(name, f) /\ f.rows[1] # <<>>

(* The codes that apply to them. *)
Violations(name, f) ==
  {code \in Code :
     \/ code = "MISSING_FILENAME"      /\ name = "missing"
     \/ code = "UNSUPPORTED_FILE_TYPE" /\ name = "other"
     \/ code = "FILE_EMPTY"            /\ name = "csv" /\ f.size = 0
     \/ code = "FILE_TOO_LARGE"        /\ name = "csv" /\ f.size > MaxSize
     \/ code = "CSV_PARSE_ERROR"       /\ Sized(name, f) /\ ~f.readable
     \/ code = "CSV_HEADER_MISSING"    /\ Parsed(name, f) /\ Filled(f) = {}
     \/ code = "CSV_NO_COLUMNS"        /\ Headed(name, f) /\ f.rows[1] = <<>>
     \/ code = "CSV_BLANK_COLUMN_NAME" /\ Columned(name, f) /\ Unnamed(f.rows[1])
     \/ code = "CSV_DUPLICATE_COLUMNS" /\ Columned(name, f) /\ Repeated(f.rows[1])
     \/ code = "CSV_NO_DATA_ROWS"      /\ Columned(name, f) /\ Filled(f) \subseteq {1}}

(* A verdict on downloaded bytes reports exactly the rules that these bytes  *)
(* break, although the metadata checks saw an earlier object: no mixture of  *)
(* the two is ever judged.                                                   *)
VerdictFollowsBytes ==
  pc = "done" /\ content # None => errors = Violations(filename, content)

(* An upload that is left alone gets the same codes from the S3 path, which  *)
(* decides partly on the name and the metadata alone, as from the multipart  *)
(* path: the two cannot drift apart (validators.py:17-18, service.py:458). *)
PathsAgree ==
  pc \in {"refused", "done"} /\ ~replaced => errors = Violations(filename, object)

(* size_bytes of an S3 response comes from HeadObject, and the bytes judged  *)
(* may be others: still no client is told VALIDATED next to a size that the  *)
(* rules refuse, and the two belong to one object unless it was replaced.    *)
SizeSound ==
  pc = "done" /\ errors = {} => size \in 1..MaxSize /\ (~replaced => size = content.size)

(* Counts are reported just when the file has a header with columns, and     *)
(* never a misleading zero (schemas.py:107-110); a row counts as data if it  *)
(* or a later one has text, so blank rows count inside but not at the end.   *)
CountsHonest ==
  pc = "done" =>
    IF content = None THEN counts = None
    ELSE IF ~Columned(filename, content) THEN counts = None
    ELSE counts = [rows    |-> Cardinality({n \in DOMAIN content.rows :
                                 n # 1 /\ \E m \in Filled(content) : m >= n}),
                   columns |-> Len(content.rows[1])]

(* An upload as Intake has it: its length, cut off above the limit, and      *)
(* whether no code but those for the size applies.                           *)
Seen(f) ==
  [size |-> IF f.size > MaxSize THEN MaxSize + 1 ELSE f.size,
   csv  |-> /\ f.size > 0 /\ f.readable
            /\ ~(Filled(f) \subseteq {1})
            /\ f.rows[1] # <<>> /\ ~Unnamed(f.rows[1]) /\ ~Repeated(f.rows[1])]

(* Where Intake has the request, which judges in one step with GetObject.    *)
Point ==
  CASE pc \in {"start", "refused"}      -> "idle"
    [] pc \in {"head", "get"}           -> pc
    [] pc \in {"file", "read", "trim"}  ->
         IF Violations(filename, content) = {} THEN "check" ELSE "rejected"
    [] pc = "done"                      -> IF errors = {} THEN "check" ELSE "rejected"

(* One job under validation by one request; nothing is published here.       *)
I == INSTANCE Intake
  WITH Job <- {"job"}, Thread <- {"request"}, MessageId <- {},
       MaxUpload <- MaxSize, MaxLost <- 0, Offered <- {Seen(f) : f \in Replacement},
       registry <- [j \in {"job"} |-> [status |-> "VALIDATING", message_published |-> FALSE,
                                       published_message_id |-> None]],
       upload <- [j \in {"job"} |-> "live"],
       objects <- [j \in {"job"} |-> Seen(object)],
       sent <- {}, wire <- {},
       pc <- [t \in {"request"} |-> Point],
       target <- [t \in {"request"} |-> "job"],
       content <- [t \in {"request"} |-> IF content = None THEN None ELSE Seen(content)],
       command <- [t \in {"request"} |-> None],
       reply <- [t \in {"request"} |-> None]

(* From HeadObject to the verdict the S3 path, with its early returns, its   *)
(* loop over rows and a client that overwrites the object meanwhile, takes   *)
(* no step that Intake does not take on the length and one flag: what Intake *)
(* shows of verdicts and publishes holds for real files.                     *)
RefinesIntake == [][path = "s3" /\ pc # "start" => I!Next]_(I!vars)
=============================================================================
