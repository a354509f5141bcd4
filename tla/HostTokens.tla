------------------------------ MODULE HostTokens -------------------------------
(***************************************************************************)
(* How a host proves who it is.  The master keeps the public key of the    *)
(* host (facade/host.go); the private key is in a file of the delegate,    *)
(* which watches it (auth/localkeys.go).  A loop on the delegate signs a   *)
(* request with the loaded key, gets a token from the master and writes it *)
(* to a file (auth/token.go), which the controllers of the containers      *)
(* watch.  The master remembers until when a host is authenticated         *)
(* (auth/hostregistry.go).                                                 *)
(***************************************************************************)
EXTENDS Naturals, FiniteSets

CONSTANTS MaxKeys,          \* how many keys the master makes for the host
          MaxTokenFailures, \* how many requests for a token may fail
          MaxLeaderChanges, \* how many times the master may change
          MaxGrants,        \* how many times the permissions of the pool change
          MaxDelegateStarts \* how many times the delegate starts again

ASSUME HostTokensAssumption ==
    {MaxKeys, MaxTokenFailures, MaxLeaderChanges, MaxGrants, MaxDelegateStarts} \subseteq Nat

VARIABLES hostKey,   \* hostkeyStore: the key of the host, 0 before it is added
          grantAdmin,     \* the permissions of the host's pool
          authRecord,    \* HostExpirationRegistry: the key it stands for, 0 for none
          reading,   \* AuthenticateHost: the key it has read, 0 when nothing is going on
          letters,   \* private keys on their way to the host
          keyFile,   \* the delegate's key file
          keyWatch,  \* WatchDelegateKeyFile: "start", "gap", "on"
          keyEvent,  \* a change of the key file that was not looked at
          delegateKeys,    \* delegateKeys
          tokenLoop,      \* TokenLoop
          signed,    \* the key with which the request was signed
          currentToken,     \* currentToken
          forceRefresh,     \* somebody waits to send on forceRefresh
          tokenFile, \* auth.token: a token, or torn while it is written
          ctrWatch, ctrEvent, ctrToken,  \* the same for a container's controller
          missed,    \* the key file changed after it was read and before it was watched
          crossed,   \* AuthenticateHost and ResetHostKey have crossed
          tkLeft
tkVars == <<hostKey, grantAdmin, authRecord, reading, letters, keyFile, keyWatch, keyEvent, delegateKeys, tokenLoop, signed, currentToken,
            forceRefresh, tokenFile, ctrWatch, ctrEvent, ctrToken, missed, crossed, tkLeft>>
masterVars == <<hostKey, grantAdmin, authRecord, reading, letters, crossed>>
keyVars == <<keyFile, keyWatch, keyEvent, delegateKeys, missed>>
loopVars == <<tokenLoop, signed, currentToken, forceRefresh, tokenFile>>
ctrVars == <<ctrWatch, ctrToken>>

NoToken == [key |-> 0, admin |-> FALSE]
Torn == [key |-> 0, admin |-> TRUE]

\* A pool is made without permissions (pool.New), and the host is not in it yet.
tkInit ==
    /\ hostKey = 0 /\ grantAdmin = FALSE /\ authRecord = 0 /\ reading = 0 /\ letters = {}
    /\ keyFile = 0 /\ keyWatch = "start" /\ keyEvent = FALSE /\ delegateKeys = 0 /\ missed = FALSE
    /\ tokenLoop = "keys" /\ signed = 0 /\ currentToken = NoToken /\ forceRefresh = FALSE /\ tokenFile = NoToken
    /\ ctrWatch = "start" /\ ctrEvent = FALSE /\ ctrToken = NoToken /\ crossed = FALSE
    /\ tkLeft = [failures |-> MaxTokenFailures, leaders |-> MaxLeaderChanges, grants |-> MaxGrants, starts |-> MaxDelegateStarts]

-----------------------------------------------------------------------------
(* The master                                                               *)

\* AddHost and ResetHostKey: a new key is stored, the record is dropped, and the caller gets
\* the private key.
generateDelegateKey ==
    /\ hostKey < MaxKeys
    /\ hostKey' = hostKey + 1 /\ letters' = letters \cup {hostKey + 1}
    /\ authRecord' = 0 /\ crossed' = (crossed \/ reading # 0)
    /\ UNCHANGED <<grantAdmin, reading, tkLeft, ctrEvent>> /\ UNCHANGED <<keyVars, loopVars, ctrVars>>

\* UpdateResourcePool with other permissions: no token is touched.
SetPermission ==
    /\ tkLeft.grants > 0 /\ tkLeft' = [tkLeft EXCEPT !.grants = @ - 1]
    /\ grantAdmin' = ~grantAdmin
    /\ UNCHANGED <<hostKey, authRecord, reading, letters, crossed, ctrEvent>> /\ UNCHANGED <<keyVars, loopVars, ctrVars>>

\* AuthenticateHost: the key of the host is read.
GetHostKey ==
    /\ tokenLoop = "asks" /\ reading = 0 /\ hostKey # 0
    /\ reading' = hostKey /\ crossed' = (crossed /\ authRecord # 0)
    /\ UNCHANGED <<hostKey, grantAdmin, authRecord, letters, tkLeft, ctrEvent>> /\ UNCHANGED <<keyVars, loopVars, ctrVars>>

\* There is no key, or another one has signed: what is known of the host is dropped.
AuthenticateRefuses ==
    /\ tokenLoop = "asks" /\ (hostKey = 0 \/ (reading # 0 /\ reading # signed))
    /\ authRecord' = 0 /\ reading' = 0 /\ tokenLoop' = "retry"
    /\ UNCHANGED <<hostKey, grantAdmin, letters, crossed, signed, currentToken, forceRefresh, tokenFile, tkLeft, ctrEvent>>
    /\ UNCHANGED <<keyVars, ctrVars>>

\* The host and its pool are read, the token is signed and the record is set.
CreateJWTIdentity ==
    /\ tokenLoop = "asks" /\ reading # 0 /\ reading = signed
    /\ authRecord' = reading /\ reading' = 0
    /\ tokenLoop' = "stores" /\ currentToken' = [key |-> reading, admin |-> grantAdmin]
    /\ UNCHANGED <<hostKey, grantAdmin, letters, crossed, signed, forceRefresh, tokenFile, tkLeft, ctrEvent>>
    /\ UNCHANGED <<keyVars, ctrVars>>

\* The request or its answer is lost, the host or the pool cannot be read.
AuthenticateLost ==
    /\ tokenLoop = "asks" /\ tkLeft.failures > 0 /\ tkLeft' = [tkLeft EXCEPT !.failures = @ - 1]
    /\ \/ UNCHANGED authRecord
       \/ reading # 0 /\ reading = signed /\ authRecord' = reading
    /\ reading' = 0 /\ tokenLoop' = "retry"
    /\ UNCHANGED <<hostKey, grantAdmin, letters, crossed, signed, currentToken, forceRefresh, tokenFile, ctrEvent>> /\ UNCHANGED <<keyVars, ctrVars>>

\* Set and IsExpired: the time of the record is over.
RecordExpires ==
    /\ authRecord # 0 /\ authRecord' = 0
    /\ UNCHANGED <<hostKey, grantAdmin, reading, letters, crossed, tkLeft, ctrEvent>> /\ UNCHANGED <<keyVars, loopVars, ctrVars>>

-----------------------------------------------------------------------------
(* The key file of the delegate                                             *)

\* RegisterLocalHost and RegisterRemoteHost ("serviced host register").
RegisterHost ==
    /\ \E k \in letters :
         /\ letters' = letters \ {k} /\ keyFile' = k
         /\ keyEvent' = (keyWatch = "on")
         /\ missed' = (missed \/ keyWatch = "gap")
    /\ UNCHANGED <<hostKey, grantAdmin, authRecord, reading, crossed, keyWatch, delegateKeys, tkLeft, ctrEvent>>
    /\ UNCHANGED <<loopVars, ctrVars>>

\* updateDelegateKeys: the keys are replaced and all who wait for a change go on.
LoadsKeys == delegateKeys' = IF keyFile = 0 THEN delegateKeys ELSE keyFile
KeysWake(l) == IF l = "waits" /\ keyFile # 0 THEN "fetch" ELSE l

\* WatchDelegateKeyFile: the file is loaded, and after that it is watched.
loadKeysFirst ==
    /\ keyWatch = "start" /\ keyWatch' = "gap"
    /\ LoadsKeys /\ tokenLoop' = KeysWake(tokenLoop)
    /\ UNCHANGED <<keyFile, keyEvent, missed, signed, currentToken, forceRefresh, tokenFile, tkLeft, ctrEvent>> /\ UNCHANGED <<masterVars, ctrVars>>
NotifyOnChange ==
    /\ keyWatch = "gap" /\ keyWatch' = "on"
    /\ UNCHANGED <<keyFile, keyEvent, delegateKeys, missed, tkLeft, ctrEvent>> /\ UNCHANGED <<masterVars, loopVars, ctrVars>>
loadKeys ==
    /\ keyWatch = "on" /\ keyEvent /\ keyEvent' = FALSE /\ missed' = FALSE
    /\ LoadsKeys /\ tokenLoop' = KeysWake(tokenLoop)
    /\ UNCHANGED <<keyFile, keyWatch, signed, currentToken, forceRefresh, tokenFile, tkLeft, ctrEvent>> /\ UNCHANGED <<masterVars, ctrVars>>

-----------------------------------------------------------------------------
(* TokenLoop                                                                *)
LoopGoes(from, to) == tokenLoop = from /\ tokenLoop' = to

\* WaitForDelegateKeys
KeysReady ==
    /\ delegateKeys # 0 /\ LoopGoes("keys", "fetch")
    /\ UNCHANGED <<signed, currentToken, forceRefresh, tokenFile, tkLeft, ctrEvent>> /\ UNCHANGED <<masterVars, keyVars, ctrVars>>
\* Client.AuthenticateHost, SignAsDelegate
SignAsDelegate ==
    /\ LoopGoes("fetch", "asks") /\ signed' = delegateKeys
    /\ UNCHANGED <<currentToken, forceRefresh, tokenFile, tkLeft, ctrEvent>> /\ UNCHANGED <<masterVars, keyVars, ctrVars>>
Retry ==
    /\ LoopGoes("retry", "fetch")
    /\ UNCHANGED <<signed, currentToken, forceRefresh, tokenFile, tkLeft, ctrEvent>> /\ UNCHANGED <<masterVars, keyVars, ctrVars>>

\* updateToken: the file is cut to nothing and written; who watches it sees both.
TearsFile ==
    /\ LoopGoes("stores", "writes") /\ tokenFile' = Torn
    /\ ctrEvent' = (ctrEvent \/ ctrWatch = "on")
    /\ UNCHANGED <<signed, currentToken, forceRefresh, tkLeft>> /\ UNCHANGED <<masterVars, keyVars, ctrVars>>
updateToken ==
    /\ LoopGoes("writes", "waits") /\ tokenFile' = currentToken
    /\ ctrEvent' = (ctrEvent \/ ctrWatch = "on")
    /\ UNCHANGED <<signed, currentToken, forceRefresh, tkLeft>> /\ UNCHANGED <<masterVars, keyVars, ctrVars>>

\* The time to refresh the token has come.
RefreshTimer ==
    /\ LoopGoes("waits", "fetch")
    /\ UNCHANGED <<signed, currentToken, forceRefresh, tokenFile, tkLeft, ctrEvent>> /\ UNCHANGED <<masterVars, keyVars, ctrVars>>

\* LeaderListener: a new master; whoever tells the loop waits until it listens.
LeaderChanges ==
    /\ tkLeft.leaders > 0 /\ tkLeft' = [tkLeft EXCEPT !.leaders = @ - 1]
    /\ forceRefresh' = TRUE /\ authRecord' = 0
    /\ UNCHANGED <<hostKey, grantAdmin, reading, letters, crossed, tokenLoop, signed, currentToken, tokenFile, ctrEvent>>
    /\ UNCHANGED <<keyVars, ctrVars>>
ForceRefresh ==
    /\ forceRefresh /\ LoopGoes("waits", "fetch") /\ forceRefresh' = FALSE
    /\ UNCHANGED <<signed, currentToken, tokenFile, tkLeft, ctrEvent>> /\ UNCHANGED <<masterVars, keyVars, ctrVars>>

\* The delegate ends and is started again.  The files stay.
DelegateStarts ==
    /\ tkLeft.starts > 0 /\ tkLeft' = [tkLeft EXCEPT !.starts = @ - 1]
    /\ keyWatch' = "start" /\ keyEvent' = FALSE /\ delegateKeys' = 0 /\ missed' = FALSE
    /\ tokenLoop' = "keys" /\ signed' = 0 /\ currentToken' = NoToken /\ forceRefresh' = FALSE /\ reading' = 0
    /\ UNCHANGED <<hostKey, grantAdmin, authRecord, letters, crossed, keyFile, tokenFile, ctrEvent>> /\ UNCHANGED ctrVars

-----------------------------------------------------------------------------
(* A container's controller                                                 *)

\* WatchTokenFile: LoadTokenFile takes what is in the file, a part of a token too; without
\* keys, for which updateToken waits one second, the token is dropped.
LoadTokenFile == ctrToken' \in {ctrToken} \cup (IF keyFile # 0 /\ tokenFile # NoToken THEN {tokenFile} ELSE {})
LoadTokenSurely == ctrToken' = IF keyFile # 0 /\ tokenFile # NoToken THEN tokenFile ELSE ctrToken
CtrLoadsFirst ==
    /\ ctrWatch = "start" /\ ctrWatch' = "gap" /\ LoadTokenFile
    /\ UNCHANGED <<ctrEvent, tkLeft>> /\ UNCHANGED <<masterVars, keyVars, loopVars>>
CtrWatches ==
    /\ ctrWatch = "gap" /\ ctrWatch' = "on"
    /\ UNCHANGED <<ctrEvent, ctrToken, tkLeft>> /\ UNCHANGED <<masterVars, keyVars, loopVars>>
WatchTokenFile ==
    /\ ctrWatch = "on" /\ ctrEvent /\ ctrEvent' = FALSE /\ LoadTokenSurely
    /\ UNCHANGED <<ctrWatch, tkLeft>> /\ UNCHANGED <<masterVars, keyVars, loopVars>>

tkNext ==
    \/ generateDelegateKey \/ SetPermission \/ GetHostKey \/ AuthenticateRefuses \/ CreateJWTIdentity \/ AuthenticateLost
    \/ RecordExpires \/ RegisterHost \/ loadKeysFirst \/ NotifyOnChange \/ loadKeys
    \/ KeysReady \/ SignAsDelegate \/ Retry \/ TearsFile \/ updateToken \/ RefreshTimer \/ LeaderChanges \/ ForceRefresh
    \/ DelegateStarts \/ CtrLoadsFirst \/ CtrWatches \/ WatchTokenFile

\* The loop runs, timers fire, the master answers and changes of a file are noticed.
tkLoop == KeysReady \/ SignAsDelegate \/ Retry \/ TearsFile \/ updateToken
tkMaster == GetHostKey \/ AuthenticateRefuses \/ CreateJWTIdentity
tkWatch == loadKeysFirst \/ NotifyOnChange \/ loadKeys
tkContainer == CtrLoadsFirst \/ CtrWatches \/ WatchTokenFile
\* A notice of a change arrives long before the next change of the file.
tkReadsAll == WatchTokenFile /\ tokenFile # Torn
tkSpec ==
    /\ tkInit /\ [][tkNext]_tkVars
    /\ WF_tkVars(tkLoop) /\ WF_tkVars(tkMaster) /\ WF_tkVars(tkWatch) /\ WF_tkVars(tkContainer) /\ WF_tkVars(RefreshTimer)
    /\ SF_tkVars(tkReadsAll)

-----------------------------------------------------------------------------
\* A host counts as authenticated only with the key that the master now has for it: a new key
\* ends it.  The exception is a request that has read the old key while the new one was
\* stored: it sets the record again.
RecordIsCurrent == authRecord # 0 => authRecord = hostKey \/ crossed

\* As long as the right key lies in the delegate's file, the host comes to hold a token for
\* it with the present permissions of its pool, and the controllers have the same token,
\* though a change of the key during a request wakes nobody and a change of the permissions
\* is told to nobody.  A key that is written between the first read of the file and the
\* beginning of the watch is not seen.
TokensFollow ==
    <>[](keyFile = hostKey /\ hostKey # 0 /\ ~missed) =>
        /\ <>[](currentToken = [key |-> hostKey, admin |-> grantAdmin])
        /\ []<>(ctrToken = currentToken)
=============================================================================
