------------------------------- MODULE KndCa -------------------------------
(***************************************************************************)
(* KndMitmCa (app/src/mitm_ca.cpp): loadOrCreate keeps the certificate and *)
(* the key of the local CA in two files, written one after the other, and  *)
(* certForHost mints one leaf per host and process.  The process may die   *)
(* between any two steps; files survive it, and so does what the user      *)
(* installed into the root store (app/src/win_integration.cpp).            *)
(*                                                                         *)
(* A key pair is its generation number, a file the generation of what it   *)
(* holds and whether all of it is there.  A write that fwrite accepted is  *)
(* assumed to reach the disk (the result of fclose is not looked at).      *)
(***************************************************************************)
EXTENDS Naturals

CONSTANTS
  Hosts,     \* names certificates are minted for
  MaxGens    \* bound: key pairs generated

ASSUME CaAssumption == MaxGens \in Nat

VARIABLES
  certFile, keyFile,        \* knd_ca.pem, knd_ca_key.pem
  caPc,                     \* where loadOrCreate is
  caReady, caCert, caKey,   \* ready_, caCertPem_ and d_->caKey
  cache,                    \* cache_
  gens,                     \* key pairs generated so far
  misread,                  \* a pair on disk could once not be read
  installed                 \* root store: each certificate the user installed,
                            \* and whether the app then said "CA ready"

caFiles == <<certFile, keyFile>>
caProc  == <<caPc, caReady, caCert, caKey, cache>>
caVars  == <<caFiles, caProc, gens, misread, installed>>

(* A file, or the text read from one; generation 0 is none.                *)
File(g, whole) == [gen |-> g, whole |-> whole]
Empty == File(0, FALSE)
Whole(g) == File(g, TRUE)
Torn(g) == File(g, FALSE)

(* A leaf and its chain: the key that signed it and the CA certificate     *)
(* appended.  Serial numbers are left out.                                 *)
NoLeaf == [signer |-> 0, ca |-> Empty]

(* What a process starts with.                                             *)
CaProcInit ==
  /\ caPc = "read" /\ caReady = FALSE /\ caCert = Empty /\ caKey = 0
  /\ cache = [h \in Hosts |-> NoLeaf]

CaInit ==
  /\ certFile = Empty /\ keyFile = Empty
  /\ gens = 0 /\ misread = FALSE /\ installed = {}
  /\ CaProcInit

(* The process ends or dies: its memory is gone.                           *)
CaDies ==
  /\ caPc' = "read" /\ caReady' = FALSE /\ caCert' = Empty /\ caKey' = 0
  /\ cache' = [h \in Hosts |-> NoLeaf]
  /\ UNCHANGED <<caFiles, gens, misread, installed>>

-----------------------------------------------------------------------------
(* loadOrCreate.                                                           *)

CaReturns(ready) == caPc' = "done" /\ caReady' = ready /\ UNCHANGED <<cache, installed>>

(* Both files hold something and the key parses.  The certificate is not   *)
(* looked at.  A file that cannot be opened reads as an empty one, so a    *)
(* pair may be created although there is one.                              *)
Loads == certFile # Empty /\ keyFile.whole

LoadCa ==
  /\ caPc = "read" /\ Loads
  /\ caCert' = certFile /\ caKey' = keyFile.gen
  /\ CaReturns(TRUE)
  /\ UNCHANGED <<caFiles, gens, misread>>

(* The random generator fails before anything is read; or a key, the       *)
(* certificate or the export of the key fails.                             *)
CreateFails ==
  /\ caPc = "read"
  /\ CaReturns(FALSE)
  /\ UNCHANGED <<caFiles, caCert, caKey, gens, misread>>

CreateCa ==
  /\ caPc = "read" /\ gens < MaxGens
  /\ gens' = gens + 1
  /\ misread' = (misread \/ Loads)
  /\ caKey' = gens' /\ caCert' = Whole(gens')
  /\ caPc' = "openCert"
  /\ UNCHANGED <<caFiles, caReady, cache, installed>>

(* WriteFile: fopen "wb" fails, or leaves an empty file.                   *)
OpenFile(at, next, file) ==
  /\ caPc = at
  /\ \/ CaReturns(FALSE) /\ UNCHANGED file
     \/ /\ file' = Empty /\ caPc' = next
        /\ UNCHANGED <<caReady, cache, installed>>
  /\ UNCHANGED <<caCert, caKey, gens, misread>>

OpenCert == OpenFile("openCert", "writeCert", certFile) /\ UNCHANGED keyFile
OpenKey  == OpenFile("openKey", "writeKey", keyFile) /\ UNCHANGED certFile

(* fwrite: short, which is an error, or complete.  Part of the data may be *)
(* in the file before the call returns.                                    *)
WriteCert ==
  /\ caPc = "writeCert"
  /\ \/ certFile' = Torn(caKey) /\ CaReturns(FALSE)
     \/ certFile' = Torn(caKey) /\ UNCHANGED <<caPc, caReady, cache, installed>>
     \/ /\ certFile' = Whole(caKey) /\ caPc' = "openKey"
        /\ UNCHANGED <<caReady, cache, installed>>
  /\ UNCHANGED <<keyFile, caCert, caKey, gens, misread>>

(* Mutant: the result of the second WriteFile is not looked at.            *)
WriteKeyUnchecked ==
  /\ caPc = "writeKey"
  /\ keyFile' \in {Torn(caKey), Whole(caKey)} /\ CaReturns(TRUE)
  /\ UNCHANGED <<certFile, caCert, caKey, gens, misread>>

WriteKey ==
  /\ caPc = "writeKey"
  /\ \/ keyFile' = Torn(caKey) /\ CaReturns(FALSE)
     \/ keyFile' = Torn(caKey) /\ UNCHANGED <<caPc, caReady, cache, installed>>
     \/ keyFile' = Whole(caKey) /\ CaReturns(TRUE)
  /\ UNCHANGED <<certFile, caCert, caKey, gens, misread>>

LoadOrCreate ==
  \/ LoadCa \/ CreateFails \/ CreateCa
  \/ OpenCert \/ WriteCert \/ OpenKey \/ WriteKey

-----------------------------------------------------------------------------
(* certForHost, all of it under mtx_ but for the look at ready_, when it   *)
(* succeeds: the leaf out of the cache, or a new one.                      *)
CertForHost(h) ==
  /\ caReady
  /\ cache' = IF cache[h] # NoLeaf THEN cache
              ELSE [cache EXCEPT ![h] = [signer |-> caKey, ca |-> caCert]]
  /\ UNCHANGED <<caFiles, caPc, caReady, caCert, caKey, gens, misread, installed>>

(* InstallCaToRoot reads the file, not the CA in memory, and refuses what  *)
(* is empty or does not decode.  The button is there whether or not the CA *)
(* is ready.                                                               *)
InstallCaToRoot ==
  /\ caPc = "done" /\ certFile.whole
  /\ installed' = installed \cup {[gen |-> certFile.gen, ready |-> caReady]}
  /\ UNCHANGED <<caFiles, caProc, gens, misread>>

(* The CA by itself, over one process after another.                       *)
CaNext == LoadOrCreate \/ CaDies \/ InstallCaToRoot \/ \E h \in Hosts : CertForHost(h)

CaSpec == CaInit /\ [][CaNext]_caVars

-----------------------------------------------------------------------------
(* Properties.                                                             *)

Gens == 0 .. MaxGens
Files == [gen : Gens, whole : BOOLEAN]
Leaves == [signer : Gens, ca : Files]

(* Every variable of the CA has its type.                                  *)
CaTypeOK ==
  /\ certFile \in Files /\ keyFile \in Files /\ caCert \in Files
  /\ caPc \in {"read", "openCert", "writeCert", "openKey", "writeKey", "done"}
  /\ caReady \in BOOLEAN /\ caKey \in Gens /\ gens \in Gens
  /\ misread \in BOOLEAN /\ installed \subseteq [gen : Gens, ready : BOOLEAN]
  /\ cache \in [Hosts -> Leaves]

(* mitm_ca.cpp: "append CA so the chain is complete".  Whatever crash or   *)
(* failed write an earlier start met, as long as no start failed to read   *)
(* what was there: each minted leaf is signed by the key of the            *)
(* certificate appended to it, and that is the one the user installed when *)
(* ui.cpp said "CA ready (knd_ca.pem). Clients must trust it".  One that   *)
(* was installed under "CA not generated yet" (its key could not be        *)
(* written) signs nothing: the next start makes another pair.              *)
ChainTrusted ==
  \A h \in Hosts : cache[h] # NoLeaf /\ ~misread =>
    /\ cache[h].ca = Whole(cache[h].signer)
    /\ \A i \in installed : i.ready => i.gen = cache[h].signer

=============================================================================
