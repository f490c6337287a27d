--------------------------- MODULE EntriesProofs ----------------------------
(***************************************************************************)
(* Proofs about Entries for every entry over any texts: what the checks of *)
(* the configuration let through is refused nowhere later, its credentials *)
(* arrive, and only requests that mount carry them.  The checks are made   *)
(* three times over, by the validator's tags, by the configuration and by  *)
(* the driver or the daemon, each over a representation of its own; these  *)
(* theorems relate them.                                                   *)
(***************************************************************************)
EXTENDS Entries, TLAPS

(* The three blocks a type may need are told apart from a missing one.     *)
LEMMA BlocksTyped ==
  ASSUME NEW e \in Entry
  PROVE  /\ Has(e.smb) => e.smb \in SMBBlock
         /\ Has(e.sshfs) => e.sshfs \in SSHFSBlock
         /\ Has(e.webdav) => e.webdav \in WebDAVBlock
         /\ Has(e.s3) => e.s3 \in S3Block
  BY DEF Entry, Has

(* The snapshot of an accepted entry of a managed type has a source: the   *)
(* answer of FromMountEntry that its callers drop is always true           *)
(* (convert.go:14-32, main.go:666).                                        *)
LEMMA SourceGiven ==
  ASSUME NEW e \in Entry, Accepted(e)
  PROVE  /\ e.type = "webdav" => /\ Has(e.webdav)
                                 /\ SourceOf(e).url = e.webdav.url
         /\ e.type = "s3" => /\ Has(e.s3)
                             /\ SourceOf(e).provider = e.s3.provider
                             /\ SourceOf(e).bucket = e.s3.bucket
  BY DEF Accepted, ValidateDriverConfig, SourceOf, NoSource

(* GetPort of a port that the validator lets through (types.go:55, 133).   *)
LEMMA PortExists ==
  ASSUME NEW block, block.port \in Ports, block.port <= MaxPort
  PROVE  PortOf(block) \in 1..MaxPort
<1>1. MaxPort \in Nat /\ 445 <= MaxPort
  BY DEF MaxPort
<1> QED
  BY <1>1 DEF PortOf, Ports

(* What the validator asks of the block that the entry's type uses.        *)
LEMMA BlockValid ==
  ASSUME NEW e \in Entry, Accepted(e)
  PROVE  /\ e.type = "smb" =>
              /\ Has(e.smb) /\ e.smb.port <= MaxPort
              /\ Given(e.smb.addr) /\ Given(e.smb.share) /\ Given(e.smb.user)
         /\ e.type = "sshfs" =>
              Has(e.sshfs) /\ Given(e.sshfs.host) /\ Given(e.sshfs.remotePath)
         /\ e.type \in {"smb", "sshfs", "webdav", "s3"}
<1>1. /\ e.type = "smb" => Has(e.smb)
      /\ e.type = "sshfs" => Has(e.sshfs)
      /\ e.type \in {"smb", "sshfs", "webdav", "s3"}
  BY DEF Accepted, ValidateDriverConfig
<1>2. /\ Has(e.smb) => /\ Given(e.smb.addr) /\ Given(e.smb.share) /\ Given(e.smb.user)
                       /\ e.smb.port <= MaxPort
      /\ Has(e.sshfs) => Given(e.sshfs.host) /\ Given(e.sshfs.remotePath)
  BY DEF Accepted, StructValid
<1> QED
  BY <1>1, <1>2

(* An entry that the configuration accepts is refused neither by its       *)
(* driver nor by the daemon, and an smb entry has a port that exists       *)
(* (types.go:52-85, 133-138, 148-192; daemonapi/types.go:29-57;            *)
(* smb/driver.go:171-185; sshfs/driver.go:113-124).                        *)
THEOREM AcceptedIsMountable ==
  ASSUME NEW e \in Entry, Accepted(e)
  PROVE  Mountable(e)
<1>1. CASE e.type = "smb"
  <2>1. Has(e.smb) /\ DriverValid(e)
    BY <1>1, BlockValid DEF DriverValid
  <2>2. e.smb \in SMBBlock
    BY <2>1, BlocksTyped
  <2>3. e.smb.port \in Ports
    BY <2>2 DEF SMBBlock
  <2>4. PortOf(e.smb) \in 1..MaxPort
    BY <1>1, <2>3, BlockValid, PortExists
  <2>5. ~IsManagedType(e.type)
    BY <1>1 DEF IsManagedType
  <2> QED
    BY <2>1, <2>4, <2>5 DEF Mountable
<1>2. CASE e.type = "sshfs"
  <2>1. DriverValid(e)
    BY <1>2, BlockValid DEF DriverValid
  <2>2. ~IsManagedType(e.type) /\ e.type # "smb"
    BY <1>2 DEF IsManagedType
  <2> QED
    BY <2>1, <2>2 DEF Mountable
<1>3. CASE e.type \in {"webdav", "s3"}
  <2>1. /\ Given(e.name) /\ Given(e.type) /\ Given(e.dir)
    BY DEF Accepted, StructValid
  <2>2. e.type = "webdav" => Given(e.webdav.url)
    BY DEF Accepted, ValidateDriverConfig
  <2>3. e.type = "s3" => /\ Given(e.s3.provider) /\ Given(e.s3.bucket)
                         /\ KeysAgree(e.s3.keyId, e.s3.secret, e.s3.envAuth)
    BY DEF Accepted, ValidateDriverConfig
  <2>4. Snapshot(e, TRUE) = FromMountEntry(e)
    BY DEF Snapshot
  <2>5. /\ FromMountEntry(e).name = e.name /\ FromMountEntry(e).type = e.type
        /\ FromMountEntry(e).dir = e.dir /\ FromMountEntry(e).source = SourceOf(e)
    BY DEF FromMountEntry
  <2>6. e.type = "s3" => /\ SourceOf(e).keyId = e.s3.keyId
                         /\ SourceOf(e).secret = e.s3.secret
                         /\ SourceOf(e).envAuth = e.s3.envAuth
    BY SourceGiven DEF SourceOf
  <2>7. SnapshotValid(Snapshot(e, TRUE))
    BY <2>1, <2>2, <2>3, <2>4, <2>5, <2>6, SourceGiven DEF SnapshotValid
  <2>8. IsManagedType(e.type) /\ e.type # "smb"
    BY <1>3 DEF IsManagedType
  <2> QED
    BY <2>7, <2>8 DEF Mountable
<1> QED
  BY <1>1, <1>2, <1>3, BlockValid

(* The remote of an accepted entry is opened with the configured           *)
(* credentials and with one kind of them (convert.go:14-29,                *)
(* backend_rclone.go:61-68, 85-104).                                       *)
THEOREM AcceptedCredentialsReach ==
  ASSUME NEW e \in Entry, Accepted(e)
  PROVE  CredentialsReach(e)
<1>1. Snapshot(e, TRUE).source = SourceOf(e)
  BY DEF Snapshot, FromMountEntry
<1>2. ASSUME e.type = "s3"
      PROVE  LET v == S3Values(SourceOf(e))
             IN /\ v.keyId = e.s3.keyId /\ v.secret = e.s3.secret /\ v.token = e.s3.token
                /\ Given(v.keyId) <=> Given(v.secret)
                /\ v.envAuth => ~Given(v.keyId)
  <2>1. KeysAgree(e.s3.keyId, e.s3.secret, e.s3.envAuth)
    BY <1>2 DEF Accepted, ValidateDriverConfig
  <2>2. /\ SourceOf(e).keyId = e.s3.keyId /\ SourceOf(e).secret = e.s3.secret
        /\ SourceOf(e).token = e.s3.token /\ SourceOf(e).envAuth = e.s3.envAuth
    BY <1>2, SourceGiven DEF SourceOf
  <2>3. /\ S3Values(SourceOf(e)).keyId = IF Given(e.s3.keyId) THEN e.s3.keyId ELSE ""
        /\ S3Values(SourceOf(e)).secret = IF Given(e.s3.keyId) THEN e.s3.secret ELSE ""
        /\ S3Values(SourceOf(e)).token = e.s3.token
        /\ S3Values(SourceOf(e)).envAuth = e.s3.envAuth
    BY <2>2 DEF S3Values
  <2> QED
    BY <2>1, <2>3 DEF KeysAgree, Given
<1>3. ASSUME e.type = "webdav"
      PROVE  /\ WebDAVValues(SourceOf(e)).user = e.webdav.user
             /\ WebDAVValues(SourceOf(e)).password = e.webdav.password
  BY <1>3, SourceGiven DEF SourceOf, NoSource, WebDAVValues
<1> QED
  BY <1>1, <1>2, <1>3 DEF CredentialsReach

(* Requests for a status or an unmount carry no secret of any entry,       *)
(* whatever its type, and name the same entry (main.go:666-673).           *)
THEOREM NoSecretsAsked ==
  ASSUME NEW e \in Entry
  PROVE  SecretsStayHome(e)
<1> DEFINE s == [SourceOf(e) EXCEPT !.password = "", !.keyId = "", !.secret = "", !.token = ""]
<1>1. {"password", "keyId", "secret", "token"} \subseteq DOMAIN SourceOf(e)
  BY DEF SourceOf, NoSource
<1>2. s.password = "" /\ s.keyId = "" /\ s.secret = "" /\ s.token = ""
  BY <1>1
<1>3. Snapshot(e, FALSE) = [name |-> e.name, type |-> e.type, dir |-> e.dir, source |-> s]
  BY DEF Snapshot, FromMountEntry
<1> DEFINE sent == Snapshot(e, FALSE)
<1> HIDE DEF s, sent
<1>4. sent.source = s
  <2>1. sent = [name |-> e.name, type |-> e.type, dir |-> e.dir, source |-> s]
    BY <1>3 DEF sent
  <2> QED
    BY <2>1
<1>5. Secrets(Snapshot(e, FALSE)) = {""}
  BY <1>2, <1>4 DEF Secrets, sent
<1>6. \A f \in {"name", "type", "dir"} : Snapshot(e, FALSE)[f] = Snapshot(e, TRUE)[f]
  BY DEF Snapshot, FromMountEntry
<1> QED
  BY <1>5, <1>6 DEF SecretsStayHome
=============================================================================
