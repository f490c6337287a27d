---------------------------- MODULE MCConfigLoad ----------------------------
(* An instance of ConfigLoad for TLC: three files that may include each    *)
(* other and themselves.                                                   *)
EXTENDS ConfigLoad, TLC

(* All texts, in the order in which names are sorted.                      *)
TextOrder == <<"", "/h", "/w", "a", "aws", "b", "c", "d", "file", "ftp", "journal",
               "k", "rustfs", "s3", "smb", "sshfs", "webdav", "~">>
MCText     == {TextOrder[i] : i \in DOMAIN TextOrder}
MCNameRank == [t \in MCText |-> CHOOSE i \in DOMAIN TextOrder : TextOrder[i] = t]
MCResolve  == [t \in MCText |-> CASE t \in {"/h", "/w"} -> t
                                  [] t = "~"            -> "/h"
                                  [] t = "k"            -> Unresolved
                                  [] OTHER              -> "/w"]

Plain(n, t, dir) == [name |-> n, type |-> t, dir |-> dir, smb |-> NoBlock,
                     sshfs |-> NoBlock, webdav |-> NoBlock, s3 |-> NoBlock,
                     tunnel |-> NoBlock]
SMB(n, user)  == [Plain(n, "smb", "~") EXCEPT !.tunnel = "d",
                    !.smb = [addr |-> "d", port |-> 0, share |-> "d", user |-> user]]
SSHFS(n)      == [Plain(n, "sshfs", "d") EXCEPT
                    !.sshfs = [host |-> "d", remotePath |-> "d"]]
WebDAV(n, in) == [Plain(n, "webdav", "d") EXCEPT
                    !.webdav = [url |-> "d", isURL |-> TRUE, userinfo |-> in,
                                user |-> "a", password |-> "b", path |-> ""]]
S3(n, id, secret, env) ==
  [Plain(n, "s3", "/w") EXCEPT
     !.s3 = [provider |-> "rustfs", bucket |-> "b", path |-> "", region |-> "",
             endpoint |-> "d", keyId |-> id, secret |-> secret, token |-> secret,
             envAuth |-> env, pathStyle |-> "unset"]]

(* Lists of entries: accepted ones, and ones that each check refuses.      *)
Good == { << >>, <<SMB("a", "d")>>, <<S3("b", "k", "d", FALSE), SSHFS("a")>>,
          <<WebDAV("c", FALSE)>>, <<S3("c", "", "", TRUE)>> }
Bad  == { <<SMB("b", "")>>, <<Plain("b", "ftp", "d")>>, <<WebDAV("b", TRUE)>>,
          <<S3("b", "k", "", FALSE)>>, <<S3("b", "k", "d", TRUE)>>,
          <<Plain("c", "sshfs", "d")>>, <<[SSHFS("b") EXCEPT !.dir = "k"]>> }

File(ms, inc) == [good |-> TRUE, mounts |-> ms, include |-> inc, by |-> << >>,
                  logTarget |-> "", socket |-> "", logFile |-> ""]
ByName(desc)  == [key |-> "name", desc |-> desc]
Unknown       == [key |-> "unknown", desc |-> FALSE]
Settings(f)   == {[f EXCEPT !.by = by] : by \in {<<ByName(FALSE)>>,
                                                 <<Unknown, ByName(TRUE)>>, <<Unknown>>}}
                 \cup {[f EXCEPT !.logTarget = "journal"], [f EXCEPT !.socket = "~"],
                       [f EXCEPT !.logFile = "k"]}

(* Patterns: one file, several, none.                                      *)
RootIncludes == { << >>, << <<"f">>, <<"g">> >>, << <<"f", "g">> >>, << <<"g", "r">> >> }
Back         == { << >>, << <<"r">> >>, << << >>, <<"g">> >>, << <<"f", "g">> >> }

MCFiles ==
  LET first == {File(ms, inc) : ms \in {<<SMB("a", "d")>>, <<S3("b", "k", "d", FALSE), SSHFS("a")>>},
                                inc \in RootIncludes}
  IN [p \in {"r", "f", "g"} |->
       CASE p = "r" -> first \cup UNION {Settings(f) : f \in first}
         [] p = "f" -> {File(ms, inc) : ms \in Good, inc \in Back}
                       \cup {File(ms, << <<"r">> >>) : ms \in Bad}
         [] p = "g" -> {File(ms, inc) : ms \in {<< >>, <<WebDAV("c", FALSE)>>, <<SSHFS("b")>>},
                                        inc \in { << >>, << <<"f">> >> }}
                       \cup {[File(<< >>, << >>) EXCEPT !.good = FALSE]}]
=============================================================================
