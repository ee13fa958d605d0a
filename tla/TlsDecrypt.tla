----------------------------- MODULE TlsDecrypt ----------------------------
(***************************************************************************)
(* Offline decryption of a captured TLS 1.2 flow (tls_decrypt.cpp): the    *)
(* key log is read, both captured streams are cut into records, the hellos *)
(* are looked up, and each direction is decrypted from its                 *)
(* ChangeCipherSpec on, counting record sequence numbers.                  *)
(*                                                                         *)
(* A direction's wire is a script, a sequence of record kinds:             *)
(*   H a plaintext handshake record with the direction's hello in it       *)
(*   C ChangeCipherSpec in the clear; the records behind it are encrypted  *)
(*   F an encrypted handshake record (Finished, or a renegotiation)        *)
(*   D encrypted application data, A an encrypted alert                    *)
(*   X an encrypted ChangeCipherSpec: the next records use new keys        *)
(* The capture has at most one hole per direction, anywhere (records the   *)
(* ring dropped, the payload cap).  What five bytes that are no record     *)
(* header, or a handshake payload that is no plaintext, are read as is     *)
(* left open.  Of the cipher (external) the model says that a record       *)
(* decrypts exactly under its own keys and sequence number, unaltered.     *)
(***************************************************************************)
EXTENDS Integers, SequencesExt, FiniteSetsExt, FiniteSets

CONSTANTS
  Flows,        \* [script : [Dirs -> script], suite : {"gcm", "other"}, keylog : lines]
  HoledDirs,    \* bound: the sets of directions that may have a hole at once
  HoleLengths,  \* bound: lengths of a hole in the middle
  HdrLen,       \* length of a record header
  Payload,      \* length of the payload of a record of each kind
  JunkLengths   \* bound: lengths read where there is no header

Dirs == {"out", "in"}
Encrypted == {"F", "D", "A", "X"}
Kinds == {"H", "C"} \cup Encrypted
Lines == {"torn", "right", "wrong", "short"}

(* Up to the first ChangeCipherSpec a direction is in the clear, behind it *)
(* all is encrypted.                                                       *)
IsScript(s) ==
  /\ \A i, j \in DOMAIN s : i < j => s[i] = "H" \/ s[j] \in Encrypted
  /\ \A j \in DOMAIN s : s[j] \in Encrypted => \E i \in 1 .. j - 1 : s[i] = "C"

ASSUME TlsAssumption ==
  /\ HdrLen \in Nat \ {0} /\ Payload \in [Kinds -> Nat] /\ JunkLengths \subseteq Nat
  /\ \A f \in Flows : /\ f.script \in [Dirs -> Seq(Kinds)] /\ f.keylog \in Seq(Lines)
                      /\ \A d \in Dirs : IsScript(f.script[d])

VARIABLES
  script, suite, holeAt, holeLen,  \* the connection and its capture
  log,                             \* the key log file: its lines for this client_random
  keylog, secret,                  \* lines not yet read; TlsKeyLog for this client_random
  pos, recs,                       \* ParseRecords
  keysRight,                       \* the derived key block is the connection's
  next, enc, seq, plain,           \* DecryptDir; outPlain and inPlain
  ok, pc

inputVars == <<script, suite, holeAt, holeLen, log>>
dirVars == <<next, enc, seq, plain>>
vars == <<inputVars, keylog, secret, pos, recs, keysRight, dirVars, ok, pc>>

-----------------------------------------------------------------------------
(* The wire.                                                               *)

TypeOf == [H |-> 22, C |-> 20, F |-> 22, D |-> 23, A |-> 21, X |-> 20]

(* How often the keys changed before record i, and its sequence number     *)
(* under its keys.                                                         *)
Epoch(s, i) == Cardinality({j \in 1 .. i - 1 : s[j] = "X"})
SeqNo(s, i) == Cardinality({j \in 1 .. i - 1 : s[j] \in Encrypted /\ Epoch(s, j) = Epoch(s, i)})

Size(s, i) == HdrLen + Payload[s[i]]
Start(s, i) ==
  LET at[j \in 1 .. i] == IF j = 1 THEN 0 ELSE at[j - 1] + Size(s, j - 1) IN at[i]
WireLen(s) == Start(s, Len(s) + 1)

-----------------------------------------------------------------------------
(* The capture.                                                            *)

CaptureLen(d) == WireLen(script[d]) - holeLen[d]

(* Bytes i .. j-1 of the capture are neighbours on the wire too.           *)
Unbroken(d, i, j) == j <= holeAt[d] \/ i >= holeAt[d]
WirePos(d, i) == IF i < holeAt[d] THEN i ELSE i + holeLen[d]

(* What ParseRecords may read at offset i: the record that starts there,   *)
(* its payload perhaps spoilt by the hole, or anything.                    *)
Junk == [type : {20, 22, 23}, len : JunkLengths, wire : {0}]
ReadAt(d, i) ==
  LET s == script[d]
      here == {k \in DOMAIN s : Start(s, k) = WirePos(d, i)}
  IN  IF here = {} \/ ~ Unbroken(d, i, i + HdrLen) THEN Junk
      ELSE {[type |-> TypeOf[s[k]], len |-> Payload[s[k]],
             wire |-> IF Unbroken(d, i, i + Size(s, k)) THEN k ELSE 0] : k \in here}

(* A direction without a hole ends where its capture ends; the others lose *)
(* a few bytes somewhere, or all from somewhere on.                        *)
Hole(holed) ==
  LET rest(d, at) == WireLen(script[d]) - at
      holes(d) == IF d \notin holed THEN {<<WireLen(script[d]), 0>>}
                  ELSE {h \in (0 .. WireLen(script[d])) \X (0 .. WireLen(script[d])) :
                          h[2] = rest(d, h[1]) \/ (h[2] \in HoleLengths /\ h[2] < rest(d, h[1]))}
  IN  \E o \in holes("out"), i \in holes("in") :
        /\ holeAt = [out |-> o[1], in |-> i[1]]
        /\ holeLen = [out |-> o[2], in |-> i[2]]

-----------------------------------------------------------------------------
Init ==
  /\ \E f \in Flows : script = f.script /\ suite = f.suite /\ log = f.keylog
  /\ keylog = log
  /\ \E holed \in HoledDirs : Hole(holed)
  /\ secret = "none"
  /\ pos = [d \in Dirs |-> 0] /\ recs = [d \in Dirs |-> <<>>]
  /\ keysRight = FALSE
  /\ next = [d \in Dirs |-> 1] /\ enc = [d \in Dirs |-> FALSE]
  /\ seq = [d \in Dirs |-> 0] /\ plain = [d \in Dirs |-> <<>>]
  /\ ok = FALSE /\ pc = "keylog"

(* loadFile and addLine, a line at a time: a line without a whole          *)
(* client_random is ignored, a later one for the same connection wins.  A  *)
(* secret that is cut or not hexadecimal is kept as far as it goes.        *)
AddLine ==
  /\ pc = "keylog" /\ keylog # <<>>
  /\ secret' = IF Head(keylog) = "torn" THEN secret ELSE Head(keylog)
  /\ keylog' = Tail(keylog)
  /\ UNCHANGED <<inputVars, pos, recs, keysRight, dirVars, ok, pc>>

KeyLogRead ==
  /\ pc = "keylog" /\ keylog = <<>>
  /\ pc' = "parse"
  /\ UNCHANGED <<inputVars, keylog, secret, pos, recs, keysRight, dirVars, ok>>

(* Mutant: a record that reaches past the end is taken all the same.       *)
ParseRecordPastEnd(d) ==
  /\ pc = "parse" /\ (d = "in" => pos["out"] = -1)
  /\ pos[d] # -1 /\ pos[d] + HdrLen <= CaptureLen(d)
  /\ \E r \in ReadAt(d, pos[d]) :
       /\ pos' = [pos EXCEPT ![d] = @ + HdrLen + r.len]
       /\ recs' = [recs EXCEPT ![d] = Append(@, r)]
  /\ UNCHANGED <<inputVars, keylog, secret, keysRight, dirVars, ok, pc>>

(* ParseRecords: one turn of its loop for a direction.                     *)
ParseRecord(d) ==
  /\ pc = "parse" /\ (d = "in" => pos["out"] = -1)
  /\ pos[d] # -1 /\ pos[d] + HdrLen <= CaptureLen(d)
  /\ \E r \in ReadAt(d, pos[d]) :
       IF pos[d] + HdrLen + r.len > CaptureLen(d)
       THEN pos' = [pos EXCEPT ![d] = -1] /\ UNCHANGED recs
       ELSE /\ pos' = [pos EXCEPT ![d] = @ + HdrLen + r.len]
            /\ recs' = [recs EXCEPT ![d] = Append(@, r)]
  /\ UNCHANGED <<inputVars, keylog, secret, keysRight, dirVars, ok, pc>>

(* ... and its end; the directions are parsed one after the other.         *)
ParseEnd(d) ==
  /\ pc = "parse" /\ (d = "in" => pos["out"] = -1)
  /\ pos[d] # -1 /\ pos[d] + HdrLen > CaptureLen(d)
  /\ pos' = [pos EXCEPT ![d] = -1]
  /\ UNCHANGED <<inputVars, keylog, secret, recs, keysRight, dirVars, ok, pc>>

IsHello(d, r) == r.wire # 0 /\ script[d][r.wire] = "H"

(* FindHandshake: the first handshake message of the wanted type.  Only a  *)
(* plaintext record surely holds it; what an encrypted, spoilt or misread  *)
(* record of type 22 holds may look like it.                               *)
FindHandshake(d) ==
  LET hellos == {i \in DOMAIN recs[d] : IsHello(d, recs[d][i])}
      opaque == {i \in DOMAIN recs[d] : recs[d][i].type = 22 /\ i \notin hellos}
  IN  (IF hellos = {} THEN {"absent"} ELSE {"found"})
      \cup (IF \E i \in opaque : \A j \in hellos : i < j THEN {"forged"} ELSE {})

(* From a hello that only looks like one TlsDecryptFlow may take anything, *)
(* the right values too: the hole may lie behind them.                     *)
Exact(client, server) == client = "found" /\ server = "found"

(* LookupSuite, and the TLS 1.3 and GCM tests on its answer.               *)
LookupSuite(server) == IF server = "found" THEN {suite = "gcm"} ELSE BOOLEAN

(* masterSecret: full-length for the client_random found, or not usable.   *)
MasterSecret(client) ==
  LET full == secret \in {"right", "wrong"} IN IF client = "found" THEN {full} ELSE {full, FALSE}

(* DeriveKeyBlock from the secret and both randoms.                        *)
DeriveKeyBlock(client, server) ==
  IF Exact(client, server) THEN {secret = "right"} ELSE {secret = "right", FALSE}

(* TlsDecryptFlow up to the key block, with its early returns.             *)
Handshake ==
  /\ pc = "parse" /\ \A d \in Dirs : pos[d] = -1
  /\ \E client \in FindHandshake("out"), server \in FindHandshake("in") :
       \E supported \in LookupSuite(server), keyed \in MasterSecret(client) :
         IF "absent" \notin {client, server} /\ supported /\ keyed
         THEN keysRight' \in DeriveKeyBlock(client, server) /\ pc' = "out"
         ELSE pc' = "done" /\ UNCHANGED keysRight
  /\ UNCHANGED <<inputVars, keylog, secret, pos, recs, dirVars, ok>>

-----------------------------------------------------------------------------
(* DecryptDir.                                                             *)

Record(d) == recs[d][next[d]]

(* GcmDecryptRecord succeeds: the tag covers the sequence number, the type *)
(* and every byte.                                                         *)
Authentic(d) ==
  LET k == Record(d).wire IN
  /\ keysRight /\ k # 0
  /\ script[d][k] \in Encrypted
  /\ Epoch(script[d], k) = 0 /\ SeqNo(script[d], k) = seq[d]

(* Everything up to the first ChangeCipherSpec is passed over.             *)
Skip(d) ==
  /\ pc = d /\ next[d] <= Len(recs[d]) /\ ~ enc[d]
  /\ enc' = [enc EXCEPT ![d] = Record(d).type = 20]
  /\ next' = [next EXCEPT ![d] = @ + 1]
  /\ UNCHANGED <<inputVars, keylog, secret, pos, recs, keysRight, seq, plain, ok, pc>>

(* Mutant: only application data is counted.                               *)
DecryptCountsData(d) ==
  /\ pc = d /\ next[d] <= Len(recs[d]) /\ enc[d] /\ Authentic(d)
  /\ IF Record(d).type = 23
     THEN /\ seq' = [seq EXCEPT ![d] = @ + 1]
          /\ plain' = [plain EXCEPT ![d] = Append(@, Record(d).wire)]
     ELSE UNCHANGED <<seq, plain>>
  /\ next' = [next EXCEPT ![d] = @ + 1]
  /\ UNCHANGED <<inputVars, keylog, secret, pos, recs, keysRight, enc, ok, pc>>

Decrypt(d) ==
  /\ pc = d /\ next[d] <= Len(recs[d]) /\ enc[d] /\ Authentic(d)
  /\ seq' = [seq EXCEPT ![d] = @ + 1]
  /\ plain' = IF Record(d).type = 23 THEN [plain EXCEPT ![d] = Append(@, Record(d).wire)]
              ELSE plain
  /\ next' = [next EXCEPT ![d] = @ + 1]
  /\ UNCHANGED <<inputVars, keylog, secret, pos, recs, keysRight, enc, ok, pc>>

(* Mutant: the record is passed over, and counted.                         *)
DecryptGoesOn(d) ==
  /\ pc = d /\ next[d] <= Len(recs[d]) /\ enc[d] /\ ~ Authentic(d)
  /\ next' = [next EXCEPT ![d] = @ + 1]
  /\ seq' = [seq EXCEPT ![d] = @ + 1]
  /\ UNCHANGED <<inputVars, keylog, secret, pos, recs, keysRight, enc, plain, ok, pc>>

(* The first record that does not decrypt ends the direction.              *)
DecryptFails(d) ==
  /\ pc = d /\ next[d] <= Len(recs[d]) /\ enc[d] /\ ~ Authentic(d)
  /\ next' = [next EXCEPT ![d] = Len(recs[d]) + 1]
  /\ UNCHANGED <<inputVars, keylog, secret, pos, recs, keysRight, enc, seq, plain, ok, pc>>

DirDone(d) ==
  /\ pc = d /\ next[d] > Len(recs[d])
  /\ IF d = "out" THEN pc' = "in" /\ UNCHANGED ok ELSE pc' = "done" /\ ok' = TRUE
  /\ UNCHANGED <<inputVars, keylog, secret, pos, recs, keysRight, dirVars>>

Next ==
  \/ AddLine \/ KeyLogRead \/ Handshake
  \/ \E d \in Dirs : \/ ParseRecord(d) \/ ParseEnd(d)
                     \/ Skip(d) \/ Decrypt(d) \/ DecryptFails(d) \/ DirDone(d)

Spec == Init /\ [][Next]_vars

-----------------------------------------------------------------------------
(* Properties.                                                             *)

(* Every variable has its type.                                            *)
TypeOK ==
  /\ secret \in {"none", "right", "wrong", "short"}
  /\ \A d \in Dirs :
       /\ pos[d] \in -1 .. CaptureLen(d)
       /\ next[d] \in 1 .. Len(recs[d]) + 1
       /\ enc[d] \in BOOLEAN /\ seq[d] \in Nat
       /\ plain[d] \in Seq(DOMAIN script[d])
  /\ keysRight \in BOOLEAN /\ ok \in BOOLEAN
  /\ pc \in {"keylog", "parse", "out", "in", "done"}

(* Whatever was lost from the capture, and however the parser falls out of *)
(* step behind the hole, the plaintext shown for a direction is a prefix   *)
(* of the data records that direction sent: nothing is taken from          *)
(* elsewhere, reordered or skipped.                                        *)
OnlyWhatWasSent ==
  \A d \in Dirs : \A i \in DOMAIN plain[d] :
    /\ script[d][plain[d][i]] = "D"
    /\ \A j \in 1 .. i - 1 : plain[d][j] < plain[d][i]
    /\ \A k \in 1 .. plain[d][i] : script[d][k] = "D" => \E j \in 1 .. i : plain[d][j] = k

(* The last line of the key log with the connection's whole client_random  *)
(* has its secret; other lines may stand before it, torn ones behind it.   *)
LogHolds(lines) ==
  \E i \in DOMAIN lines :
    lines[i] = "right" /\ \A j \in DOMAIN lines : j > i => lines[j] = "torn"

(* What was captured before the first lost byte is decrypted, if the key   *)
(* log holds the connection's secret and both hellos were captured: torn   *)
(* and earlier lines do no harm, and handshake records and alerts in       *)
(* between keep the sequence numbers in step.  Only a change of keys in    *)
(* mid-connection ends it early.                                           *)
DecryptedUpToLoss ==
  /\ pc = "done" /\ suite = "gcm" /\ LogHolds(log)
  /\ \A d \in Dirs : \E i \in DOMAIN script[d] :
       script[d][i] = "H" /\ Start(script[d], i + 1) <= holeAt[d]
  => /\ ok
     /\ \A d \in Dirs : \A i \in DOMAIN script[d] :
          /\ script[d][i] = "D" /\ Epoch(script[d], i) = 0
          /\ Start(script[d], i + 1) <= holeAt[d]
          => Contains(plain[d], i)
=============================================================================
