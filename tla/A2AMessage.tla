----------------------------- MODULE A2AMessage -----------------------------
(***************************************************************************)
(* What BaseGateway reads from an A2A message (interfaces/gateway.py): the *)
(* objective and the files, under limits on their number and sizes.  A     *)
(* part is a text, a text that names a file, or a file; a name is a model  *)
(* value, a size is a number of bytes, and text is its length.             *)
(***************************************************************************)
EXTENDS Integers, Sequences, SequencesExt

CONSTANTS
  NoName,         \* model value: no name is pending
  MaxFiles,       \* max_files
  MaxFileBytes,   \* max_file_bytes
  MaxMessage,     \* max_request_bytes
  MaxObjective    \* max_objective_chars, 0 for no limit

ASSUME MessageAssumption ==
  {MaxFiles, MaxFileBytes, MaxMessage, MaxObjective} \subseteq Nat

\* The longest base64 text of a file of the largest size.
MaxEncoded == ((MaxFileBytes + 2) \div 3) * 4

\* _parse_message_parts, one part: a file that is skipped leaves the name that
\* was meant for it to the next one.
TakePart(acc, part) ==
  CASE part.kind = "text" -> [acc EXCEPT !.text = Append(@, part.length)]
    [] part.kind = "name" -> [acc EXCEPT !.name = part.name]
    [] part.kind = "file" ->
         IF Len(acc.files) >= MaxFiles \/ part.encoded > MaxEncoded THEN acc
         ELSE [acc EXCEPT
                !.files = Append(@, [part EXCEPT
                            !.name = IF acc.name = NoName THEN @ ELSE acc.name]),
                !.name = NoName]

ParseParts(message) ==
  FoldLeft(TakePart, [text |-> <<>>, files |-> <<>>, name |-> NoName], message)

\* decode_file_bytes: the file is base64 and short enough.
Decodes(file) == file.valid /\ file.size <= MaxFileBytes

TotalSize(files) == FoldLeft(LAMBDA n, f : n + f.size, 0, files)

\* A file that does not fit is skipped, a later one may fit.
TakeFile(files, file) ==
  IF Decodes(file) /\ TotalSize(files) + file.size <= MaxMessage
  THEN Append(files, file) ELSE files

FilesOf(message) == FoldLeft(TakeFile, <<>>, ParseParts(message).files)

\* The texts are joined by newlines.
Objective(message) ==
  LET texts == ParseParts(message).text
  IN  IF texts = <<>> THEN 0
      ELSE FoldLeft(LAMBDA n, l : n + l + 1, -1, texts)

\* _validate_objective
ObjectiveFits(message) == MaxObjective = 0 \/ Objective(message) <= MaxObjective
=============================================================================
