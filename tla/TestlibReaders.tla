--------------------------- MODULE TestlibReaders ---------------------------
(***************************************************************************)
(* The InputStreamReader behind an InStream: InStream::init and reset make  *)
(* the buffered reader for a named file, the unbuffered one for stdin and   *)
(* the string reader for a string, and keep it.  `part' says which it is;   *)
(* the variables of the other two keep one value.                            *)
(***************************************************************************)
EXTENDS BufferedReader

CONSTANTS MaxUndo, MaxTestCase  \* bounds of FileReader

VARIABLES
  part,
  r, testCase, floor,   \* FileReader
  pos                   \* StringReader, whose string is `file'

Unbuffered == INSTANCE FileReader WITH BackFromEof <- FALSE
Strings == INSTANCE StringReader WITH s <- file

(* No byte 0xFF: ::getc returns it as 255, which is EOFC. *)
ASSUME ReadersAssumption ==
  /\ Files \subseteq Seq(0..(EOFC - 1)) /\ MaxTaken \in Nat
  /\ Unbuffered!FileReaderAssumption

bufferVars == <<fetched, buffer, isEof, bufferPos, bufferSize, line, putBack, eofPeeks>>
fileVars == <<r, testCase, floor>>
readersVars == <<part, file, taken, last, failed, bufferVars, fileVars, pos>>

NoBuffer == /\ fetched = 0 /\ buffer = 0 /\ isEof = 0 /\ bufferPos = 0 /\ bufferSize = 0
            /\ line = 1 /\ putBack = 0 /\ eofPeeks = 0
NoFile == r = 0 /\ testCase = 0 /\ floor = 0

ReadersInit ==
  \/ part = "buffered" /\ Init /\ NoFile /\ pos = 0
  \/ part = "unbuffered" /\ Unbuffered!Init /\ failed = FALSE /\ NoBuffer /\ pos = 0
  \/ part = "string" /\ Strings!Init /\ NoBuffer /\ NoFile

ReadersNext ==
  /\ UNCHANGED part
  /\ \/ part = "buffered" /\ Next /\ UNCHANGED <<fileVars, pos>>
     \/ part = "unbuffered" /\ Unbuffered!Next /\ UNCHANGED <<bufferVars, failed, pos>>
     \/ part = "string" /\ Strings!Next /\ UNCHANGED <<bufferVars, fileVars>>

ReadersSpec == ReadersInit /\ [][ReadersNext]_readersVars

-----------------------------------------------------------------------------
(* Refinement mapping: each reader as the stream of characters InStream takes *)
(* it for.  The string reader counts no lines.                                 *)
StreamRest == CASE part = "buffered" -> Rest
                [] part = "unbuffered" -> Unbuffered!Rest
                [] part = "string" -> Strings!Rest
                [] OTHER -> <<>>
StreamLine == CASE part = "buffered" -> line
                [] part = "unbuffered" -> r.line
                [] part = "string" -> 1 + Cardinality({i \in 1..Len(taken) : taken[i] = LF})
                [] OTHER -> 1
Stream == INSTANCE CharStream WITH rest <- StreamRest, line <- StreamLine

(* Every InputStreamReader of testlib.h is a CharStream: through refills,     *)
(* put-backs across a refill, look-ahead and peeks at the end of the file, no  *)
(* character is lost, repeated or reordered, whatever InStream takes and puts  *)
(* back (with the unbuffered reader, nothing once it has met the end).         *)
EveryReaderIsCharStream == Stream!Spec

(* What the readers keep beside the characters is right: the line that the    *)
(* buffered reader names is that of the next character, its unreadChar never   *)
(* runs out of slots, the validator's markup holds what was consumed and not   *)
(* put back, and the position of the string reader is what its caller holds.   *)
ReadersKeepTheirBooks ==
  /\ part = "buffered" => TypeOK /\ LineIsExact /\ NeverOutOfSlots
  /\ part = "unbuffered" => Unbuffered!TypeOK /\ Unbuffered!MarkupIsFaithful
  /\ part = "string" => Strings!PositionIsTaken
=============================================================================
