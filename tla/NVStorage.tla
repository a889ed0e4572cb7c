------------------------------ MODULE NVStorage ------------------------------
(***************************************************************************)
(* NVStorage: values in NVRAM, each framed by a header that records the    *)
(* options it was written with, and optionally compressed, encrypted and   *)
(* followed by a checksum.                                                 *)
(*                                                                         *)
(* The contents of a value are a datum under layers of conversion, the     *)
(* innermost first.  A conversion undone in the wrong order or with the    *)
(* wrong key is refused or yields garbage, either may happen.              *)
(***************************************************************************)
EXTENDS SequencesExt

CONSTANTS
  Keys,         \* names of variables
  Data,         \* contents
  EncKeys,      \* encryption keys
  NoKey,        \* no encryption key is passed (the default)
  Garbage,      \* contents that were never written
  Null,         \* no value
  Compression   \* TRUE iff built with LILU_COMPRESSION_SUPPORT

Options == {"raw", "compressed", "encrypted", "checksum", "sensitive"}
HeaderOptions == Options \ {"raw", "sensitive"}
KeyArgs == EncKeys \cup {NoKey}

\* Contents under their conversions, a stored value, and what a writer asked for.
Bodies == [layers : Seq({"compressed", "encrypted"}), key : KeyArgs,
             datum : Data \cup {Garbage}]
Stored == [framed : BOOLEAN, opts : SUBSET Options, body : Bodies, damaged : BOOLEAN]
Written == [datum : Data, opts : SUBSET Options, key : KeyArgs]

\* The values are told apart.
ASSUME TermsAssumption ==
  /\ Garbage \notin Data /\ Null \notin Data /\ Garbage # Null
  /\ NoKey \notin EncKeys
  /\ Compression \in BOOLEAN
  /\ Null \notin Bodies /\ Null \notin Stored /\ Null \notin Written

VARIABLES
  nvram,      \* the stored values
  removing,   \* keys whose values are wiped and about to be removed
  written,    \* what was last written under each key, for the properties
  last        \* the call being answered: its arguments, what had been written, the answer

nvVars == <<nvram, removing, written, last>>

NoCall == [op |-> "none", asked |-> {}, key |-> NoKey, wrote |-> Null, damaged |-> FALSE,
           short |-> FALSE, answer |-> Null]

NVInit ==
  /\ nvram = [k \in Keys |-> Null]
  /\ removing = {}
  /\ written = [k \in Keys |-> Null]
  /\ last = NoCall

-----------------------------------------------------------------------------
(* Conversions; the ones that undo another answer the set of possible       *)
(* contents, with Null for failure.                                         *)

Plain(d) == [layers |-> <<>>, key |-> NoKey, datum |-> d]
Wrong == {Null, Plain(Garbage)}

Compress(x) == IF Compression THEN [x EXCEPT !.layers = Append(@, "compressed")] ELSE Null

Decompress(x) ==
  IF ~Compression THEN {Null}
  ELSE IF x.layers # <<>> /\ Last(x.layers) = "compressed" /\ x.datum # Garbage
  THEN {[x EXCEPT !.layers = Front(@)]} ELSE Wrong

\* Crypto::encrypt has no key of its own.
Encrypt(x, e) ==
  IF e = NoKey THEN Null ELSE [x EXCEPT !.layers = Append(@, "encrypted"), !.key = e]

\* The contents under the last conversion.
Undone(x) == [layers |-> Front(x.layers), key |-> NoKey, datum |-> x.datum]

Decrypt(x, e) ==
  IF e = NoKey THEN {Null}
  ELSE IF x.layers # <<>> /\ Last(x.layers) = "encrypted" /\ x.key = e /\ x.datum # Garbage
  THEN {Undone(x)} ELSE Wrong

\* Mutant of Frame: the value is encrypted first.
Frame_EncryptsFirst(d, o, e) ==
  LET y == IF "encrypted" \in o THEN Encrypt(Plain(d), e) ELSE Plain(d)
      x == IF "compressed" \in o /\ y # Null THEN Compress(y) ELSE y
  IN  IF x = Null THEN Null
      ELSE [framed |-> TRUE, opts |-> o \ {"sensitive"}, body |-> x, damaged |-> FALSE]

\* What write makes of the datum d: the header keeps the options but OptSensitive.
Frame(d, o, e) ==
  LET x == IF "compressed" \in o THEN Compress(Plain(d)) ELSE Plain(d)
      y == IF "encrypted" \in o /\ x # Null THEN Encrypt(x, e) ELSE x
  IN  IF y = Null THEN Null
      ELSE [framed |-> TRUE, opts |-> o \ {"sensitive"}, body |-> y, damaged |-> FALSE]

Unframed(d) == [framed |-> FALSE, opts |-> {}, body |-> Plain(d), damaged |-> FALSE]

\* Mutant of Accepts: the checksum is believed.
Accepts_NoChecksum(v, o) == v.framed /\ o \subseteq v.opts

\* The tests on the header and on the checksum, which covers header and contents.
Accepts(v, o) == v.framed /\ o \subseteq v.opts /\ ("checksum" \in v.opts => ~v.damaged)

\* What read makes of a framed value; what to undo is taken from the header.
Unframe(v, o, e) ==
  LET xs == IF "encrypted" \in v.opts THEN Decrypt(v.body, e) ELSE {v.body}
      ys == IF "compressed" \in v.opts THEN UNION {IF x = Null THEN {Null} ELSE Decompress(x) : x \in xs}
            ELSE xs
  IN  IF Accepts(v, o) THEN ys ELSE {Null}

\* A plain datum is itself; anything else is not what anybody wrote.
Answer(x) == IF x = Null THEN Null ELSE IF x.layers = <<>> THEN x.datum ELSE Garbage

-----------------------------------------------------------------------------
\* short: memory is missing for a buffer, or the registry refuses the value.
Write(k, d, o, e, short) ==
  LET v == IF short THEN Null ELSE IF "raw" \in o THEN Unframed(d) ELSE Frame(d, o, e) IN
    /\ nvram' = IF v = Null THEN nvram ELSE [nvram EXCEPT ![k] = v]
    /\ written' = IF v = Null THEN written
                  ELSE [written EXCEPT ![k] = [datum |-> d, opts |-> o, key |-> e]]
    /\ last' = [NoCall EXCEPT !.op = "write", !.asked = o, !.key = e, !.short = short,
                              !.answer = IF v = Null THEN Null ELSE d]
    /\ UNCHANGED removing

\* Mutant of Found: a value without a header is returned to a caller that expects one.
Found_AnyForm(v, o, e) ==
  IF v = Null THEN {Null}
  ELSE IF "raw" \in o \/ ~v.framed THEN {Answer(v.body)}
  ELSE {Answer(x) : x \in Unframe(v, o, e)}

\* With OptRaw the whole of a framed value is returned, header included.
Found(v, o, e) ==
  IF v = Null THEN {Null}
  ELSE IF "raw" \in o THEN {IF v.framed THEN Garbage ELSE Answer(v.body)}
  ELSE {Answer(x) : x \in Unframe(v, o, e)}

Read(k, o, e, short) ==
  /\ \E a \in IF short THEN {Null} ELSE Found(nvram[k], o, e) :
       last' = [op |-> "read", asked |-> o, key |-> e, wrote |-> written[k], short |-> short,
                damaged |-> nvram[k] # Null /\ nvram[k].damaged, answer |-> a]
  /\ UNCHANGED <<nvram, removing, written>>

\* remove of a sensitive value first overwrites it with zeros, header included.
Wipe(k) ==
  /\ k \notin removing /\ nvram[k] # Null
  /\ nvram' = [nvram EXCEPT ![k] = [Unframed(Garbage) EXCEPT !.damaged = TRUE]]
  /\ removing' = removing \cup {k}
  /\ UNCHANGED <<written, last>>

\* removeProperty; the answer is true whether or not there was a value.
RemoveKey(k) ==
  /\ nvram' = [nvram EXCEPT ![k] = Null]
  /\ written' = [written EXCEPT ![k] = Null]
  /\ removing' = removing \ {k}
  /\ UNCHANGED last

\* The stored bytes change: the contents and perhaps the options in the header.
Damage(k, o) ==
  /\ nvram[k] # Null /\ nvram[k].framed
  /\ nvram' = [nvram EXCEPT ![k] = [@ EXCEPT !.opts = o, !.body.datum = Garbage, !.damaged = TRUE]]
  /\ UNCHANGED <<removing, written, last>>

\* The caller takes the answer of its call; calls are answered one at a time.
Return == last # NoCall /\ last' = NoCall /\ UNCHANGED <<nvram, removing, written>>

Call ==
  \/ \E k \in Keys, d \in Data, o \in SUBSET Options, e \in KeyArgs, short \in BOOLEAN :
       Write(k, d, o, e, short)
  \/ \E k \in Keys, o \in SUBSET Options, e \in KeyArgs, short \in BOOLEAN : Read(k, o, e, short)
  \/ \E k \in Keys : Wipe(k) \/ RemoveKey(k)
  \/ \E k \in Keys, o \in SUBSET HeaderOptions : Damage(k, o)

NVNext == Return \/ (last = NoCall /\ Call)

NVSpec == NVInit /\ [][NVNext]_nvVars

-----------------------------------------------------------------------------
(* Properties. *)

IsRead == last.op = "read" /\ last.wrote # Null

\* Whatever combination of conversions NVStorage::write applied, NVStorage::read
\* undoes: a value stored intact is returned to a reader with the same key who
\* requires no more options than the writer chose.
ReadBack ==
  IsRead /\ ~last.damaged /\ ~last.short =>
    LET w == last.wrote
    IN  IF "raw" \in w.opts
        THEN "raw" \in last.asked => last.answer = w.datum
        ELSE last.asked \subseteq w.opts \ {"sensitive"} /\ ("encrypted" \in w.opts => last.key = w.key)
               => last.answer = w.datum

\* A reader that requires OptChecksum gets what was written or nothing, even if
\* the stored bytes changed, provided its key is the writer's.
ChecksumGuards ==
  IsRead /\ "checksum" \in last.asked /\ "raw" \notin last.asked /\ last.wrote.key = last.key =>
    last.answer \in {last.wrote.datum, Null}

\* The options a reader names are requirements: NVStorage::read returns nothing
\* from an intact value that was written without one of them, raw values included.
RequirementsKept ==
  IsRead /\ ~last.damaged /\ last.answer # Null /\ "raw" \notin last.asked =>
    "raw" \notin last.wrote.opts /\ last.asked \subseteq last.wrote.opts

=============================================================================
