----------------------------- MODULE FettServers -----------------------------
(***************************************************************************)
(* The FreeRTOS application of the bug bounty: vMain, which starts the    *)
(* others and counts their notifications, the update task (ota.c) with its*)
(* TFTP server, the web server (tcp_server.c, http_server.c, http.c), the *)
(* file system with its lock (ff_stdio.c), and the browsers.  A page is   *)
(* Pieces pieces, each the name of the file it came with.                 *)
(***************************************************************************)
EXTENDS Tftp

CONSTANTS
    Browsers,
    Stop, Updates,  \* the files with a good signature: the STOP message, and pages
    Pieces,         \* of a page: what the transmit buffer takes at a time
    MaxFiles,       \* FF_FILEs for which there is memory
    MaxGets         \* requests of a behaviour

ASSUME SignedAssumption == Stop \subseteq Files /\ Updates \subseteq Files /\ "stale" \notin Files
ASSUME SizesAssumption == Pieces \in Nat \ {0} /\ MaxFiles \in Nat /\ IsFiniteSet(Browsers)

VARIABLES
    main, ota, http,    \* what each task does next
    notified,           \* the notification bits of vMain that are set
    iNotif,
    stopRequested,
    ended,              \* the code of the first exitBesspin, or "running"
    isNetworkUp,
    lock,               \* the owner of ff_mutex, or "free"
    page,               \* ota.htm on the disk
    badDisk,            \* the last writing of it failed
    FF_FILEs,           \* allocated
    clients, ppxClient, \* the list of clients, and the place in it of the one whose turn it is
    conn,               \* the browsers, and what the web server keeps of each
    gets

mainVars == <<main, iNotif, isNetworkUp>>
otaVars == <<ota, page, badDisk>>
httpVars == <<http, clients, ppxClient>>
webVars == <<conn, gets>>
vars == <<tftpVars, mainVars, otaVars, httpVars, webVars, notified, stopRequested, ended, lock, FF_FILEs>>

(* There is no page yet.                                                   *)
Missing == <<"missing">>

(* A browser that is not connected: no client structure, no file.          *)
Gone == [st |-> "away", cmd |-> "none", file |-> "NULL", left |-> 0, out |-> <<>>]

Init ==
    /\ TftpInit
    /\ main = "boot" /\ ota = "off" /\ http = "off"
    /\ notified = {} /\ iNotif = 0 /\ stopRequested = FALSE /\ ended = "running" /\ isNetworkUp = FALSE
    /\ lock = "free" /\ page = Missing /\ badDisk = FALSE /\ FF_FILEs = 0
    /\ clients = <<>> /\ ppxClient = 1
    /\ conn = [b \in Browsers |-> Gone]
    /\ gets = 0

(* The first call stops the printing, and the tasks.                      *)
exitBesspin(code) ==
    /\ ended' = IF ended = "running" THEN code ELSE ended
    /\ stopRequested' = TRUE
NoExit == UNCHANGED <<ended, stopRequested>>
(* ASSERT_OR_DELETE_TASK                                                  *)
AssertOrDelete(holds) == IF holds THEN NoExit ELSE exitBesspin("one")

(***************************************************************************)
(* vMain and the network                                                  *)
(***************************************************************************)
NetworkUp ==
    /\ ~isNetworkUp /\ main = "boot"
    /\ isNetworkUp' = TRUE /\ notified' = notified \union {"NTK"}
    /\ UNCHANGED <<tftpVars, main, iNotif, otaVars, httpVars, webVars, stopRequested, ended, lock, FF_FILEs>>
NetworkDown ==
    /\ Fault /\ exitBesspin("one")
    /\ UNCHANGED <<serverVars, host, toServer, toHosts, mainVars, otaVars, httpVars, webVars, notified, lock, FF_FILEs>>

(* Twenty seconds for the network; then wolfSSL and the file system.      *)
FirstNotification ==
    /\ main = "boot"
    /\ \/ notified # {} /\ UNCHANGED faults
       \/ notified = {} /\ Fault
    /\ notified' = {}
    /\ AssertOrDelete(notified = {"NTK"})
    /\ main' = IF notified = {"NTK"} THEN "init" ELSE "deleted"
    /\ UNCHANGED <<serverVars, host, toServer, toHosts, iNotif, isNetworkUp, otaVars, httpVars, webVars, lock, FF_FILEs>>
ff_init ==
    /\ main = "init"
    /\ \/ main' = "assets" /\ NoExit /\ UNCHANGED faults
       \/ Fault /\ main' = "deleted" /\ exitBesspin("one")
    /\ UNCHANGED <<serverVars, host, toServer, toHosts, iNotif, isNetworkUp, otaVars, httpVars, webVars, notified, lock, FF_FILEs>>
(* The pages of the web site, before there is anybody to share the disk   *)
(* with.  An ff_fopen or ff_fwrite that fails is logged, and vMain goes on*)
(* with no page or a short one, even when ff_fopen has called exitBesspin.*)
(* An FF_FILE whose f_open failed is lost, that of another page as well.  *)
Initialize_HTTP_Assets ==
    /\ main = "assets" /\ main' = "create"
    /\ IF FF_FILEs < MaxFiles
       THEN /\ NoExit
            /\ \/ /\ page' = [i \in 1..Pieces |-> "asset"] /\ UNCHANGED badDisk
                  /\ UNCHANGED <<FF_FILEs, faults>> \/ (Fault /\ FF_FILEs' = FF_FILEs + 1)
               \/ Fault /\ FF_FILEs' = FF_FILEs + 1 /\ badDisk' = TRUE /\ UNCHANGED page
               \/ /\ Fault /\ badDisk' = TRUE /\ UNCHANGED FF_FILEs
                  /\ \E n \in 0..Pieces - 1 : page' = [i \in 1..n |-> "asset"]
       ELSE exitBesspin("one") /\ badDisk' = TRUE /\ UNCHANGED <<FF_FILEs, faults, page>>
    /\ UNCHANGED <<serverVars, host, toServer, toHosts, iNotif, isNetworkUp, ota, httpVars, webVars, notified, lock>>
CreateHttp ==
    /\ main = "create" /\ http = "off"
    /\ \/ http' = "create" /\ NoExit /\ UNCHANGED <<main, faults>>
       \/ Fault /\ main' = "deleted" /\ exitBesspin("one") /\ UNCHANGED http
    /\ UNCHANGED <<serverVars, host, toServer, toHosts, iNotif, isNetworkUp, otaVars, clients, ppxClient, webVars, notified, lock, FF_FILEs>>
CreateOta ==
    /\ main = "create" /\ http # "off"
    /\ \/ ota' = "create" /\ main' = "count" /\ NoExit /\ UNCHANGED faults
       \/ Fault /\ main' = "deleted" /\ exitBesspin("one") /\ UNCHANGED ota
    /\ UNCHANGED <<serverVars, host, toServer, toHosts, iNotif, isNetworkUp, page, badDisk, httpVars, webVars, notified, lock, FF_FILEs>>

(* A notification may carry the bits of both tasks; a bit that is neither's is an error. *)
\* A changed form of the next definition: the second task is looked for only when the first is not there.
CountedOne(bits) == IF "HTTP" \in bits THEN 1 ELSE IF "OTA" \in bits THEN 1 ELSE 0
Counted(bits) == (IF "HTTP" \in bits THEN 1 ELSE 0) + (IF "OTA" \in bits THEN 1 ELSE 0)
\* A changed form of the next definition: the bits stay set after they are read.
CountSticky ==
    /\ main = "count" /\ notified # {}
    /\ UNCHANGED notified /\ iNotif' = iNotif + Counted(notified)
    /\ main' = IF iNotif' < 2 THEN "count" ELSE "deleted"
    /\ IF iNotif' < 2 THEN NoExit ELSE exitBesspin("zero")
    /\ UNCHANGED <<tftpVars, isNetworkUp, otaVars, httpVars, webVars, lock, FF_FILEs>>
Count ==
    /\ main = "count" /\ notified # {}
    /\ notified' = {} /\ iNotif' = iNotif + Counted(notified)
    /\ IF notified \subseteq {"HTTP", "OTA"}
       THEN /\ main' = IF iNotif' < 2 THEN "count" ELSE "deleted"
            /\ IF iNotif' < 2 THEN NoExit ELSE exitBesspin("zero")
       ELSE main' = "deleted" /\ exitBesspin("one")
    /\ UNCHANGED <<tftpVars, isNetworkUp, otaVars, httpVars, webVars, lock, FF_FILEs>>

Main == FirstNotification \/ ff_init \/ Initialize_HTTP_Assets \/ CreateHttp \/ CreateOta \/ Count

(***************************************************************************)
(* vOta                                                                   *)
(***************************************************************************)
vOta ==
    /\ ota = "create"
    /\ \/ ota' = "ask" /\ NoExit /\ UNCHANGED faults
       \/ Fault /\ ota' = "deleted" /\ exitBesspin("one")
    /\ UNCHANGED <<serverVars, host, toServer, toHosts, mainVars, page, badDisk, httpVars, webVars, notified, lock, FF_FILEs>>
Call ==
    /\ ota = "ask" /\ Listen
    /\ ota' = "tftp"
    /\ UNCHANGED <<mainVars, page, badDisk, httpVars, webVars, notified, stopRequested, ended, lock, FF_FILEs>>
TftpServer ==
    /\ ota = "tftp" /\ Server
    /\ UNCHANGED <<mainVars, otaVars, httpVars, webVars, notified, stopRequested, ended, lock, FF_FILEs>>

(* wc_ed25519_verify_msg: the files that were signed, whole; one too small*)
(* to hold a signature is not among them.                                 *)
\* A changed form of the next definition: the returned status of the verification is not looked at.
SignedAnyhow == file_buffer # <<>>
Signed == \E f \in Stop \union Updates : file_buffer = Whole(f)
Verify ==
    /\ ota = "tftp" /\ srv = "idle"
    /\ IF Signed
       THEN IF \E f \in Stop : file_buffer = Whole(f)
            THEN ota' = "next" /\ stopRequested' = TRUE
            ELSE ota' = "lock" /\ UNCHANGED stopRequested
       ELSE ota' = "next" /\ UNCHANGED stopRequested
    /\ UNCHANGED <<tftpVars, mainVars, page, badDisk, httpVars, webVars, notified, ended, lock, FF_FILEs>>

\* A changed form of the next definition: the page is written without waiting for the lock.
OtaTakesNoLock ==
    /\ ota = "lock"
    /\ lock' = "ota" /\ ota' = "open"
    /\ UNCHANGED <<tftpVars, mainVars, page, badDisk, httpVars, webVars, notified, stopRequested, ended, FF_FILEs>>
OtaLock ==
    /\ ota = "lock" /\ lock = "free"
    /\ lock' = "ota" /\ ota' = "open"
    /\ UNCHANGED <<tftpVars, mainVars, page, badDisk, httpVars, webVars, notified, stopRequested, ended, FF_FILEs>>
(* ff_fopen: with "w" the old page is cut to nothing.  An f_open that     *)
(* fails leaves it, and its FF_FILE is lost; without memory for one the   *)
(* application ends.                                                      *)
OtaOpen ==
    /\ ota = "open"
    /\ IF FF_FILEs < MaxFiles
       THEN /\ FF_FILEs' = FF_FILEs + 1 /\ NoExit
            /\ \/ page' = <<>> /\ badDisk' = FALSE /\ ota' = "write" /\ UNCHANGED faults
               \/ Fault /\ ota' = "release" /\ UNCHANGED <<page, badDisk>>
       ELSE exitBesspin("one") /\ ota' = "release" /\ UNCHANGED <<FF_FILEs, page, badDisk, faults>>
    /\ UNCHANGED <<serverVars, host, toServer, toHosts, mainVars, httpVars, webVars, notified, lock>>
OtaWrite ==
    /\ ota = "write"
    /\ \/ /\ Len(page) < Pieces
          /\ page' = Append(page, file_buffer[1][1])
          /\ UNCHANGED <<ota, badDisk, FF_FILEs, faults>>
       \/ /\ IF Len(page) < Pieces THEN Fault /\ badDisk' = TRUE ELSE UNCHANGED <<faults, badDisk>>
          /\ FF_FILEs' = FF_FILEs - 1 /\ ota' = "release" /\ UNCHANGED page
    /\ UNCHANGED <<serverVars, host, toServer, toHosts, mainVars, httpVars, webVars, notified, stopRequested, ended, lock>>
OtaRelease ==
    /\ ota = "release"
    /\ lock' = "free" /\ ota' = "next"
    /\ UNCHANGED <<tftpVars, mainVars, page, badDisk, httpVars, webVars, notified, stopRequested, ended, FF_FILEs>>
(* The flag is looked at after a request, and the task ends with a notification. *)
Ota_Worker ==
    /\ ota = "next"
    /\ ota' = IF stopRequested THEN "deleted" ELSE "ask"
    /\ notified' = IF stopRequested THEN notified \union {"OTA"} ELSE notified
    /\ UNCHANGED <<tftpVars, mainVars, page, badDisk, httpVars, webVars, stopRequested, ended, lock, FF_FILEs>>
Ota == vOta \/ Call \/ TftpServer \/ Verify \/ OtaLock \/ OtaOpen \/ OtaWrite \/ OtaRelease \/ Ota_Worker

(***************************************************************************)
(* vHttp                                                                  *)
(***************************************************************************)
TheOthers == <<serverVars, host, toServer, toHosts, mainVars, otaVars>>

FreeRTOS_CreateTCPServer ==
    /\ http = "create"
    /\ \/ http' = "select" /\ NoExit /\ UNCHANGED faults
       \/ Fault /\ http' = "deleted" /\ exitBesspin("one")
    /\ UNCHANGED <<TheOthers, clients, ppxClient, webVars, notified, lock, FF_FILEs>>

(* One cycle: a caller is accepted and becomes the first of the list; when*)
(* there is no memory for it the address of nothing is used.              *)
Select ==
    /\ http = "select"
    /\ \/ /\ \A b \in Browsers : conn[b].st # "calling"
          /\ http' = "work" /\ UNCHANGED <<clients, conn, faults>>
       \/ \E b \in Browsers :
            /\ conn[b].st = "calling"
            /\ clients' = <<b>> \o clients
            /\ conn' = [conn EXCEPT ![b] = [Gone EXCEPT !.st = "on", !.cmd = conn[b].cmd]]
            /\ http' = "work" /\ UNCHANGED faults
       \/ /\ \E b \in Browsers : conn[b].st = "calling"
          /\ Fault /\ http' = "crashed" /\ UNCHANGED <<clients, conn>>
    /\ ppxClient' = 1
    /\ UNCHANGED <<TheOthers, gets, notified, stopRequested, ended, lock, FF_FILEs>>

(* The work of the next client begins with what is left of its file; after*)
(* the last one the stop flag is looked at.                               *)
pxThis == clients[ppxClient]
Work ==
    /\ http = "work"
    /\ http' = IF ppxClient > Len(clients) THEN IF stopRequested THEN "deleted" ELSE "select"
               ELSE IF conn[pxThis].file # "NULL" THEN "more" ELSE "recv"
    /\ notified' = IF http' = "deleted" THEN notified \union {"HTTP"} ELSE notified
    /\ UNCHANGED <<TheOthers, faults, clients, ppxClient, webVars, stopRequested, ended, lock, FF_FILEs>>

(* What ff_fread finds behind what was sent; where the page was cut, the  *)
(* buffer keeps old bytes.                                                *)
Piece(n) == IF n \in DOMAIN page THEN page[n] ELSE "stale"
(* The client leaves the list; its file is closed, its structure freed.   *)
vHTTPClientDelete ==
    /\ clients' = [i \in 1..Len(clients) - 1 |-> clients[IF i < ppxClient THEN i ELSE i + 1]]
    /\ conn' = [conn EXCEPT ![pxThis] = Gone]
    /\ FF_FILEs' = FF_FILEs - (IF conn[pxThis].file # "NULL" THEN 1 ELSE 0)
(* prvSendFile: pieces, as long as there is room; with the last one the   *)
(* file is closed, and otherwise it stays open.                           *)
SendPiece ==
    /\ conn[pxThis].left > 0 /\ conn[pxThis].st = "on"
    /\ conn' = [conn EXCEPT ![pxThis] = [conn[pxThis] EXCEPT !.left = @ - 1, !.out = Append(@, Piece(Len(@) + 1))]]
    /\ UNCHANGED <<http, FF_FILEs>>
\* A changed form of the next definition: the file is closed in any case, but forgotten only at its end.
StopSendingClosed(next) ==
    /\ http' = next /\ FF_FILEs' = FF_FILEs - 1
    /\ conn' = IF conn[pxThis].left = 0 THEN [conn EXCEPT ![pxThis].file = "NULL"] ELSE conn
StopSending(next) ==
    /\ http' = next
    /\ IF conn[pxThis].left = 0
       THEN conn' = [conn EXCEPT ![pxThis].file = "NULL"] /\ FF_FILEs' = FF_FILEs - 1
       ELSE UNCHANGED <<conn, FF_FILEs>>
prvSendFile ==
    /\ \/ /\ http = "send"
          /\ SendPiece \/ StopSending("release") \/ (conn[pxThis].st = "hungup" /\ StopSending("drop"))
       \/ /\ http = "more"
          /\ SendPiece \/ StopSending("recv")
    /\ UNCHANGED <<TheOthers, faults, clients, ppxClient, gets, notified, stopRequested, ended, lock>>

xHTTPClientWork ==
    /\ http = "recv"
    /\ \/ /\ conn[pxThis].st = "hungup"
          /\ http' = "work" /\ vHTTPClientDelete /\ UNCHANGED ppxClient
       \/ /\ conn[pxThis].st = "on" /\ conn[pxThis].cmd \in {"GET page", "GET nothing"}
          /\ http' = "lock" /\ UNCHANGED <<clients, ppxClient, conn, FF_FILEs>>
       \/ /\ conn[pxThis].st = "on" /\ conn[pxThis].cmd \notin {"GET page", "GET nothing"}
          /\ http' = "work" /\ ppxClient' = ppxClient + 1
          /\ conn' = [conn EXCEPT ![pxThis].cmd = "none"] /\ UNCHANGED <<clients, FF_FILEs>>
    /\ UNCHANGED <<TheOthers, faults, gets, notified, stopRequested, ended, lock>>

(* prvOpenURL, with the lock: the handle of a file that was still open is *)
(* forgotten, and so is the FF_FILE of a page that is not there.          *)
OpenURL ==
    /\ http = "lock" /\ lock = "free"
    /\ lock' = "http"
    /\ IF FF_FILEs < MaxFiles /\ conn[pxThis].cmd = "GET page" /\ page # Missing
       THEN /\ conn' = [conn EXCEPT ![pxThis] = [conn[pxThis] EXCEPT !.cmd = "none", !.out = <<>>,
                                                                     !.file = "page", !.left = Len(page)]]
            /\ http' = "send"
       ELSE /\ conn' = [conn EXCEPT ![pxThis] = [conn[pxThis] EXCEPT !.cmd = "none", !.out = <<>>, !.file = "NULL"]]
            /\ http' = "release"
    /\ IF FF_FILEs < MaxFiles THEN FF_FILEs' = FF_FILEs + 1 /\ NoExit
       ELSE exitBesspin("one") /\ UNCHANGED FF_FILEs
    /\ UNCHANGED <<TheOthers, faults, clients, ppxClient, gets, notified>>
(* The lock goes, whether or not the file is closed.                      *)
Release ==
    /\ http \in {"release", "drop"}
    /\ lock' = "free" /\ http' = "work"
    /\ IF http = "drop" THEN vHTTPClientDelete /\ UNCHANGED ppxClient
       ELSE ppxClient' = ppxClient + 1 /\ UNCHANGED <<conn, FF_FILEs, clients>>
    /\ UNCHANGED <<TheOthers, faults, gets, notified, stopRequested, ended>>
Http == FreeRTOS_CreateTCPServer \/ Select \/ Work \/ prvSendFile \/ xHTTPClientWork \/ OpenURL \/ Release

(***************************************************************************)
(* Browsers                                                               *)
(***************************************************************************)
Browse(b) ==
    /\ \/ conn[b].st = "away" /\ http \notin {"off", "create", "deleted"} /\ gets < MaxGets
          /\ conn' = [conn EXCEPT ![b].st = "calling"] /\ UNCHANGED gets
       \/ conn[b].st = "on" /\ conn' = [conn EXCEPT ![b].st = "hungup"] /\ UNCHANGED gets
       \/ /\ conn[b].st \in {"calling", "on"} /\ conn[b].cmd = "none" /\ gets < MaxGets
          /\ \E cmd \in {"GET page", "GET nothing", "POST"} : conn' = [conn EXCEPT ![b].cmd = cmd]
          /\ gets' = gets + 1
    /\ UNCHANGED <<TheOthers, faults, httpVars, notified, stopRequested, ended, lock, FF_FILEs>>
Upload ==
    /\ World
    /\ UNCHANGED <<mainVars, otaVars, httpVars, webVars, notified, stopRequested, ended, lock, FF_FILEs>>

Alive == http # "crashed"
Tasks == Main \/ Ota \/ Http
Next == Alive /\ (Tasks \/ NetworkUp \/ NetworkDown \/ Upload \/ \E b \in Browsers : Browse(b))
Spec == Init /\ [][Next]_vars

(***************************************************************************)
(* What must hold                                                         *)
(***************************************************************************)
TypeOK ==
    /\ TftpTypeOK
    /\ main \in {"boot", "init", "assets", "create", "count", "deleted"}
    /\ ota \in {"off", "create", "ask", "tftp", "next", "lock", "open", "write", "release", "deleted"}
    /\ http \in {"off", "create", "select", "work", "recv", "lock", "send", "more", "release", "drop", "deleted", "crashed"}
    /\ notified \subseteq {"NTK", "HTTP", "OTA"} /\ iNotif \in 0..2
    /\ stopRequested \in BOOLEAN /\ ended \in {"running", "zero", "one"}
    /\ lock \in {"free", "ota", "http"} /\ FF_FILEs \in 0..MaxFiles
    /\ \A i \in 1..Len(clients) : clients[i] \in Browsers
    /\ ppxClient \in 1..Len(clients) + 1
    /\ http \in {"recv", "lock", "send", "more", "release", "drop"} => ppxClient <= Len(clients)
    /\ \A b \in Browsers : conn[b].left \in 0..Pieces

(* Whatever is uploaded: outside its critical section the page on the disk*)
(* is the one of the build or an update that was signed, and all of it,   *)
(* unless the last writing of it failed: then it is short, or there is    *)
(* none (Receive_And_Process_One_OTA_Request, Initialize_HTTP_Assets).    *)
PageIsSigned ==
    lock # "ota" /\ ota # "off"
       => \/ badDisk /\ page = Missing
          \/ \E f \in Updates \union {"asset"} :
                \E n \in 0..Pieces : page = [i \in 1..n |-> f] /\ (n = Pieces \/ badDisk)

(* What the web server sent inside its critical section, all of a page or *)
(* the beginning, is of one version, although the update task rewrites the*)
(* page in steps, and also of a page that was written in part (prvOpenURL,*)
(* Write_Payload_To_FS).                                                  *)
OneVersion ==
    http = "release"
       => \A i \in DOMAIN conn[pxThis].out :
             conn[pxThis].out[i] = conn[pxThis].out[1] /\ conn[pxThis].out[i] # "stale"

(* An application that says it ended well stopped on a STOP message: both *)
(* its tasks ended and neither took the lock along (vMain, exitBesspin).  *)
EndsWell ==
    ended = "zero" => /\ ota = "deleted" /\ http = "deleted" /\ lock = "free"
                      /\ \E c \in Clients : host[c].file \in Stop

(* Once a STOP message was accepted, or something failed, the application *)
(* says that it ends, with the notifications of both tasks together or    *)
(* apart and whoever holds the lock (Ota_Worker, Http_Worker, vMain).     *)
StopEnds == stopRequested ~> (ended # "running" \/ ~Alive)

(* The two tasks over one file system: well typed, the page a signed one, *)
(* each answer of one version, and an end with both tasks over and the lock*)
(* free (ota.c, http_server.c, main_besspin.c).                           *)
ServersInv ==
    /\ TypeOK
    /\ PageIsSigned
    /\ OneVersion
    /\ EndsWell
=============================================================================
