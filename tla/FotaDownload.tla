---------------------------- MODULE FotaDownload ----------------------------
(***************************************************************************)
(* ql_fota_firmware_download and its two callbacks (src/main/http_fota.c). *)
(* A download delivers a file in pieces to http_response_cb or             *)
(* ftp_write_data, which write them to the new firmware image, report      *)
(* progress and, when the image is verified, report that the update is     *)
(* set. The program is built with it, update_fota calls it, but nothing    *)
(* calls update_fota: the module is about what a caller would meet.        *)
(***************************************************************************)
EXTENDS Integers

CONSTANTS
    FileLengths,  \* of the files a server offers
    MaxDownloads  \* bound: calls of ql_fota_firmware_download

ASSUME FileLengthsAssumption == FileLengths \subseteq Nat \ {0}
ASSUME DownloadsAssumption == MaxDownloads \in Nat

Modes == {"HTTP", "FTP"}

VARIABLES
    mode,         \* of the current download
    stage,        \* what the download is at
    client,       \* fota_httpclient and fota_ftpclient: "none", "live", "released"
    file,         \* what the server sends: its length, and whether it is a firmware
    received,     \* how much of it the callback was given
    image,        \* how much of it is in the image of ctx
    total_len, recv_len, writen_len,
    fota_process, \* what ql_fota_get_progress returns
    reports,      \* the states fota_progress_cb was called with in this download
    ctxFailed,    \* ql_fota_init failed
    early,        \* history: ql_http_client_request returned with the file not
                  \* finished and no event that says so
    downloads     \* how many there have been

counters == <<total_len, recv_len, writen_len>>
transfer == <<received, image>>
fotaVars == <<mode, stage, client, file, transfer, counters, fota_process, reports, ctxFailed,
              early, downloads>>

FotaInit ==
    /\ mode \in Modes
    /\ stage = "idle"
    /\ client = [m \in Modes |-> "none"]
    /\ file = [len |-> 0, firmware |-> FALSE]
    /\ received = 0 /\ image = 0
    /\ total_len = 0 /\ recv_len = 0 /\ writen_len = 0
    /\ fota_process = 0
    /\ reports = {}
    /\ ctxFailed = FALSE
    /\ early = FALSE
    /\ downloads = 0

-----------------------------------------------------------------------------
(* ql_fota_firmware_download. *)

Offer(m) ==
    /\ stage \in {"idle", "over"} /\ downloads < MaxDownloads
    /\ downloads' = downloads + 1
    /\ mode' = m
    /\ file' \in [len : FileLengths, firmware : BOOLEAN]
    /\ received' = 0 /\ image' = 0
    /\ reports' = {}
    /\ early' = FALSE

\* Without a context nothing happens, and fota_process keeps its old value.
InitFails(m) ==
    /\ Offer(m)
    /\ ctxFailed' = TRUE
    /\ stage' = "over"
    /\ UNCHANGED <<client, counters, fota_process>>

\* A client is made if there is none, and may not come to be; one that was
\* released is used again.  An FTP client lists the file first, for its length.
Start(m) ==
    /\ Offer(m)
    /\ ctxFailed' = FALSE
    /\ fota_process' = 0
    /\ client' \in IF client[m] = "none" THEN {client, [client EXCEPT ![m] = "live"]}
                  ELSE {client}
    /\ stage' = IF m = "HTTP" THEN "send" ELSE "get"
    /\ total_len' \in CASE m = "HTTP" -> {total_len}
                        [] m = "FTP" /\ client'[m] = "none" -> {0}
                        [] OTHER -> {0, file'.len}
    /\ UNCHANGED <<recv_len, writen_len>>

\* The client is released, if there is one; the pointer to it stays.
Release ==
    /\ stage = "release"
    /\ client' = [client EXCEPT ![mode] = IF @ = "none" THEN "none" ELSE "released"]
    /\ stage' = "over"
    /\ UNCHANGED <<mode, file, transfer, counters, fota_process, reports, ctxFailed, early,
                   downloads>>

\* Undefined behaviour: the use of a released or a NULL client (FTP releases the
\* latter, too), and in ftp_write_data a division by the length of a file that
\* was not listed.  Each may also go unnoticed (the quotient is 0 then).
Fault ==
    /\ \/ stage \in {"send", "get"} /\ client[mode] # "live"
       \/ stage = "release" /\ mode = "FTP" /\ client[mode] = "none"
       \/ stage = "get" /\ client[mode] # "none" /\ total_len = 0
    /\ stage' = "fault"
    /\ UNCHANGED <<mode, client, file, transfer, counters, fota_process, reports, ctxFailed,
                   early, downloads>>

-----------------------------------------------------------------------------
(* http_response_cb. *)

http == <<mode, client, file, writen_len, ctxFailed, early, downloads>>

\* Mutant: a failure is logged only.
HttpFailsSilently ==
    /\ client["HTTP"] # "none"
    /\ stage \in {"send", "header", "body", "stopped", "done"}
    /\ stage' = "release"
    /\ UNCHANGED <<http, transfer, total_len, recv_len, fota_process, reports>>

\* SEND_FAIL, RECV_HEADER_FAIL, or DISCONNECTED at any time, the end of a
\* complete download included.
HttpFails ==
    /\ client["HTTP"] # "none"
    /\ stage \in {"send", "header", "body", "stopped", "done"}
    /\ fota_process' = -1
    /\ stage' = "release"
    /\ UNCHANGED <<http, transfer, total_len, recv_len, reports>>

SendSucceeds ==
    /\ client["HTTP"] # "none"
    /\ stage = "send"
    /\ stage' = "header"
    /\ UNCHANGED <<http, transfer, total_len, recv_len, fota_process, reports>>

\* Whatever the status code is, the body is accepted; without a
\* Content-Length total_len is 0.
HeaderFinished ==
    /\ stage = "header"
    /\ total_len' \in {0, file.len}
    /\ stage' = "body"
    /\ UNCHANGED <<http, transfer, recv_len, fota_process, reports>>

Share(len) == IF total_len > 0 THEN (len * 100) \div total_len ELSE 0

\* RECV_BODY: a piece of the file, written and reported.
HttpWrites(n) ==
    /\ stage = "body" /\ n <= file.len - received
    /\ received' = received + n
    /\ recv_len' = recv_len + n
    /\ image' = image + n
    /\ fota_process' = IF total_len > 0 THEN Share(recv_len') ELSE fota_process
    /\ reports' = reports \union {"INPROGRESS"}
    /\ UNCHANGED <<http, stage, total_len>>

\* A failed write ends the body, and says nothing.
HttpWriteFails(n) ==
    /\ stage = "body" /\ n <= file.len - received
    /\ received' = received + n
    /\ recv_len' = recv_len + n
    /\ stage' = "stopped"
    /\ UNCHANGED <<http, image, total_len, fota_process, reports>>

\* ql_fota_image_verify may accept a complete firmware and nothing else.
Verified(len) == file.firmware /\ len = file.len

\* Mutant: SETFLAG does not depend on the verification.
HttpFinishedUnverified ==
    /\ stage = "body" /\ received = file.len
    /\ fota_process' = 100
    /\ reports' = reports \union {"SUCCEED", "SETFLAG"}
    /\ stage' = "done"
    /\ UNCHANGED <<http, transfer, total_len, recv_len>>

\* RECV_BODY_FINISHED: success is reported first and verified then.
HttpFinished ==
    /\ stage = "body" /\ received = file.len
    /\ fota_process' = 100
    /\ \/ Verified(image) /\ reports' = reports \union {"SUCCEED", "SETFLAG"}
       \/ reports' = reports \union {"SUCCEED"}
    /\ stage' = "done"
    /\ UNCHANGED <<http, transfer, total_len, recv_len>>

\* ql_http_client_request returns, at the end or before: it may refuse the
\* request, for want of a client above all, or give it up, without any event.
\* Nobody looks at its result.
HttpReturns ==
    /\ stage \in {"send", "header", "body", "stopped", "done"}
    /\ early' = (stage \in {"send", "header", "body"})
    /\ stage' = "release"
    /\ UNCHANGED <<mode, client, file, transfer, counters, fota_process, reports, ctxFailed,
                   downloads>>

-----------------------------------------------------------------------------
(* ftp_write_data. *)

ftp == <<mode, client, file, total_len, recv_len, ctxFailed, early, downloads>>

FtpPiece(n) ==
    /\ stage = "get" /\ client["FTP"] # "none" /\ n <= file.len - received
    /\ received' = received + n

FtpWriteFails(n) ==
    /\ FtpPiece(n)
    /\ reports' = reports \union {"FAIL"}
    /\ fota_process' = -1
    /\ stage' = "release"
    /\ UNCHANGED <<ftp, image, writen_len>>

FtpWrites(n) ==
    /\ FtpPiece(n)
    /\ image' = image + n
    /\ writen_len' = writen_len + n
    /\ fota_process' = Share(writen_len')
    /\ writen_len' # total_len
    /\ reports' = reports \union {"INPROGRESS"}
    /\ UNCHANGED <<ftp, stage>>

\* Mutant: the image counts as complete as soon as the count has got there.
FtpCompletesLater(n) ==
    /\ FtpPiece(n)
    /\ image' = image + n
    /\ writen_len' = writen_len + n
    /\ fota_process' = Share(writen_len')
    /\ writen_len' >= total_len
    /\ \/ /\ Verified(image')
          /\ reports' = reports \union {"SUCCEED", "SETFLAG"}
          /\ stage' = stage
       \/ /\ reports' = reports \union {"SUCCEED", "FAIL"}
          /\ stage' = "release"
    /\ UNCHANGED ftp

\* The piece that brings writen_len to total_len; a failed verification ends
\* the transfer.
FtpCompletes(n) ==
    /\ FtpPiece(n)
    /\ image' = image + n
    /\ writen_len' = writen_len + n
    /\ fota_process' = Share(writen_len')
    /\ writen_len' = total_len
    /\ \/ /\ Verified(image')
          /\ reports' = reports \union {"SUCCEED", "SETFLAG"}
          /\ stage' = stage
       \/ /\ reports' = reports \union {"SUCCEED", "FAIL"}
          /\ stage' = "release"
    /\ UNCHANGED ftp

\* ql_ftp_client_get returns, at the end of the file or before; what it
\* returns is printed.
FtpReturns ==
    /\ stage = "get"
    /\ stage' = "release"
    /\ UNCHANGED <<ftp, transfer, writen_len, fota_process, reports>>

-----------------------------------------------------------------------------

Pieces == 1..2

Http ==
    \/ HttpFails \/ SendSucceeds \/ HeaderFinished \/ HttpFinished \/ HttpReturns
    \/ \E n \in Pieces : HttpWrites(n) \/ HttpWriteFails(n)

Ftp == FtpReturns \/ \E n \in Pieces : FtpWrites(n) \/ FtpCompletes(n) \/ FtpWriteFails(n)

FotaNext == (\E m \in Modes : InitFails(m) \/ Start(m)) \/ Release \/ Fault \/ Http \/ Ftp

FotaSpec == FotaInit /\ [][FotaNext]_fotaVars

-----------------------------------------------------------------------------

Flagged == "SETFLAG" \in reports

\* The update is set only for a complete firmware of this very download:
\* pieces that could not be written, error pages, and counts left over from an
\* earlier download never get there.
FlagMeansFirmware == Flagged => file.firmware /\ image = file.len

\* An FTP download can succeed only if no earlier one wrote anything: the
\* static writen_len never returns to 0, so that a retry always misses
\* total_len or meets it too early.
FtpRetryCannotSucceed == mode = "FTP" /\ Flagged => writen_len = image

\* A download that did not set the update and looks neither failed to
\* ql_fota_get_progress nor to the callback: there was no context, the request
\* was refused or given up without an event, a piece could not be written, the
\* verification failed (all HTTP), or the FTP transfer broke off, never began,
\* or was counted wrongly.
SilentFailureHasCause ==
    stage = "over" /\ ~Flagged /\ fota_process # -1 /\ "FAIL" \notin reports =>
        \/ ctxFailed
        \/ mode = "HTTP" /\ (early \/ image < received \/ "SUCCEED" \in reports)
        \/ mode = "FTP" /\ (received < file.len \/ writen_len # total_len)

=============================================================================
