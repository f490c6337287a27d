------------------------------ MODULE Entries -------------------------------
(***************************************************************************)
(* One mount entry on its way from the configuration to the process that   *)
(* mounts it: the checks of internal/config/types.go, the checks of the    *)
(* drivers, the snapshot of internal/daemonapi that is sent to the daemon, *)
(* and the options the daemon gives to rclone for it.                      *)
(*                                                                         *)
(* A text is only told apart from the empty one, except for the types and  *)
(* the S3 providers that the code names.                                   *)
(***************************************************************************)
EXTENDS Integers

CONSTANTS Text,   \* what a field may hold; "" when it is not given
          NoBlock \* a block that an entry does not have

ASSUME EmptyIsText == "" \in Text

MaxPort    == 65535
Ports      == 0..(MaxPort + 1)  \* 0 when no port is given, the last out of range
PathStyles == {"unset", "true", "false"}

SMBBlock    == [addr : Text, port : Ports, share : Text, user : Text]
SSHFSBlock  == [host : Text, remotePath : Text]
(* isURL: what the validator's "url" tag asks; userinfo: credentials in it. *)
WebDAVBlock == [url : Text, isURL : BOOLEAN, userinfo : BOOLEAN,
                user : Text, password : Text, path : Text]
S3Block     == [provider : Text, bucket : Text, path : Text, region : Text,
                endpoint : Text, keyId : Text, secret : Text, token : Text,
                envAuth : BOOLEAN, pathStyle : PathStyles]

ASSUME NoBlockIsNone ==
  NoBlock \notin SMBBlock \cup SSHFSBlock \cup WebDAVBlock \cup S3Block

(* tunnel: the host of ssh_tunnel, NoBlock without one.                    *)
Entry == [name : Text, type : Text, dir : Text,
          smb    : SMBBlock \cup {NoBlock},
          sshfs  : SSHFSBlock \cup {NoBlock},
          webdav : WebDAVBlock \cup {NoBlock},
          s3     : S3Block \cup {NoBlock},
          tunnel : Text \cup {NoBlock}]

Given(t) == t # ""
Has(b)   == b # NoBlock

-----------------------------------------------------------------------------
(* The configuration.                                                      *)

(* The validator's tags.  It looks into every block that is there, also    *)
(* into those that the entry's type does not use.                          *)
StructValid(e) ==
  /\ Given(e.name) /\ Given(e.type) /\ Given(e.dir)
  /\ Has(e.smb)    => /\ Given(e.smb.addr) /\ Given(e.smb.share) /\ Given(e.smb.user)
                      /\ e.smb.port <= MaxPort
  /\ Has(e.sshfs)  => Given(e.sshfs.host) /\ Given(e.sshfs.remotePath)
  /\ Has(e.webdav) => Given(e.webdav.url) /\ e.webdav.isURL
  /\ Has(e.s3)     => Given(e.s3.provider) /\ Given(e.s3.bucket)
  /\ Has(e.tunnel) => Given(e.tunnel)

(* Static keys come as a pair, and not together with env_auth.             *)
KeysAgree(keyId, secret, envAuth) ==
  /\ Given(keyId) <=> Given(secret)
  /\ ~ (envAuth /\ Given(keyId))

ValidateDriverConfigLoose(e) ==
  \/ e.type = "smb"    /\ Has(e.smb)
  \/ e.type = "sshfs"  /\ Has(e.sshfs)
  \/ e.type = "webdav" /\ Has(e.webdav)
  \/ e.type = "s3"     /\ Has(e.s3)

ValidateDriverConfig(e) ==
  \/ e.type = "smb" /\ Has(e.smb)
  \/ e.type = "sshfs" /\ Has(e.sshfs)
  \/ /\ e.type = "webdav" /\ Has(e.webdav)
     /\ Given(e.webdav.url) /\ ~e.webdav.userinfo
  \/ /\ e.type = "s3" /\ Has(e.s3)
     /\ Given(e.s3.provider) /\ Given(e.s3.bucket)
     /\ KeysAgree(e.s3.keyId, e.s3.secret, e.s3.envAuth)

Accepted(e) == StructValid(e) /\ ValidateDriverConfig(e)

IsManagedType(t) == t \in {"webdav", "s3"}

(* GetPort: what the mount command of smb or its tunnel connects to.       *)
PortOf(block) == IF block.port = 0 THEN 445 ELSE block.port

-----------------------------------------------------------------------------
(* The drivers of this process: what they check before they mount.         *)

DriverValid(e) ==
  \/ /\ e.type = "smb" /\ Has(e.smb)
     /\ Given(e.smb.addr) /\ Given(e.smb.share) /\ Given(e.smb.user)
  \/ /\ e.type = "sshfs" /\ Has(e.sshfs)
     /\ Given(e.sshfs.host) /\ Given(e.sshfs.remotePath)

-----------------------------------------------------------------------------
(* The snapshot that is sent to the daemon.                                *)

NoSource == [url |-> "", user |-> "", password |-> "", path |-> "",
             provider |-> "", bucket |-> "", region |-> "", endpoint |-> "",
             keyId |-> "", secret |-> "", token |-> "",
             envAuth |-> FALSE, pathStyle |-> "unset"]

SourceOf(e) ==
  CASE e.type = "webdav" /\ Has(e.webdav) ->
         [NoSource EXCEPT !.url = e.webdav.url, !.user = e.webdav.user,
                          !.password = e.webdav.password, !.path = e.webdav.path]
    [] e.type = "s3" /\ Has(e.s3) ->
         [url |-> "", user |-> "", password |-> "", path |-> e.s3.path,
          provider |-> e.s3.provider, bucket |-> e.s3.bucket,
          region |-> e.s3.region, endpoint |-> e.s3.endpoint,
          keyId |-> e.s3.keyId, secret |-> e.s3.secret, token |-> e.s3.token,
          envAuth |-> e.s3.envAuth, pathStyle |-> e.s3.pathStyle]
    [] OTHER -> NoSource

FromMountEntry(e) ==
  [name |-> e.name, type |-> e.type, dir |-> e.dir, source |-> SourceOf(e)]

(* snapshotsFromEntries, for one entry: only a mount needs the secrets.    *)
Snapshot(e, withSecrets) ==
  IF withSecrets THEN FromMountEntry(e)
  ELSE [FromMountEntry(e) EXCEPT !.source.password = "", !.source.keyId = "",
                                 !.source.secret = "", !.source.token = ""]

(* EntrySnapshot.Validate, which the daemon asks before it mounts.         *)
SnapshotValid(snap) ==
  /\ Given(snap.name) /\ Given(snap.type) /\ Given(snap.dir)
  /\ snap.type = "webdav" => Given(snap.source.url)
  /\ snap.type = "s3" =>
       /\ Given(snap.source.provider) /\ Given(snap.source.bucket)
       /\ KeysAgree(snap.source.keyId, snap.source.secret, snap.source.envAuth)

-----------------------------------------------------------------------------
(* The options of the remote that the daemon makes; "" for one not set.    *)

ResolveS3Provider(p) ==
  CASE p = "aws"           -> "AWS"
    [] p = "aliyun_oss"    -> "Alibaba"
    [] p = "tencent_cos"   -> "TencentCOS"
    [] p = "qiniu_kodo"    -> "Qiniu"
    [] p = "minio"         -> "Minio"
    [] p = "cloudflare_r2" -> "Cloudflare"
    [] p \in {"rustfs", "other"} -> "Other"
    [] OTHER               -> p

S3Values(src) ==
  LET rustfs == src.provider = "rustfs"
      keys   == Given(src.keyId)
  IN [provider |-> ResolveS3Provider(src.provider),
      envAuth  |-> src.envAuth,
      region   |-> IF ~Given(src.region) /\ rustfs THEN "us-east-1" ELSE src.region,
      endpoint |-> src.endpoint,
      keyId    |-> IF keys THEN src.keyId ELSE "",
      secret   |-> IF keys THEN src.secret ELSE "",
      token    |-> src.token,
      pathStyle |-> IF src.pathStyle = "unset" /\ rustfs THEN "true" ELSE src.pathStyle]

(* The password goes out obscured, and rclone reveals it again.            *)
WebDAVValues(src) ==
  [url |-> src.url, user |-> src.user, password |-> src.password]

-----------------------------------------------------------------------------
(* What has to hold of an entry that a configuration accepts.              *)

(* Nobody refuses it later: neither the driver that mounts it, nor the     *)
(* daemon (main.go:666 drops the answer whether there was a block at all). *)
Mountable(e) ==
  /\ IsManagedType(e.type)  => SnapshotValid(Snapshot(e, TRUE))
  /\ ~IsManagedType(e.type) => DriverValid(e)
  /\ e.type = "smb"         => PortOf(e.smb) \in 1..MaxPort

Secrets(snap) == {snap.source.password, snap.source.keyId,
                  snap.source.secret, snap.source.token}

(* The remote is opened with the credentials of the configuration and with *)
(* one kind of them: the static pair, or those of the environment, or none. *)
CredentialsReach(e) ==
  /\ e.type = "s3" =>
       LET v == S3Values(Snapshot(e, TRUE).source)
       IN /\ v.keyId = e.s3.keyId /\ v.secret = e.s3.secret /\ v.token = e.s3.token
          /\ Given(v.keyId) <=> Given(v.secret)
          /\ v.envAuth => ~Given(v.keyId)
  /\ e.type = "webdav" =>
       LET v == WebDAVValues(Snapshot(e, TRUE).source)
       IN v.user = e.webdav.user /\ v.password = e.webdav.password

(* A request that does not mount carries no secret, and tells the daemon   *)
(* the same entry all the same.                                            *)
SecretsStayHome(e) ==
  /\ Secrets(Snapshot(e, FALSE)) = {""}
  /\ \A f \in {"name", "type", "dir"} : Snapshot(e, FALSE)[f] = Snapshot(e, TRUE)[f]
=============================================================================
