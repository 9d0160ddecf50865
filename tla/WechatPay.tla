------------------------------ MODULE WechatPay ------------------------------
(* The channel to WeChat pay (payment/provider/wechat): requests, answers
   and callbacks with their signatures, and the certificates they are
   verified with, which are downloaded into a directory that the processes
   of a machine share.  Beside them the files of bills (BillFileManager).

   Steps are what a process does between two awaits, but that every file
   is written, removed and read in a step of its own: other processes run
   in between. *)
EXTENDS Naturals, FiniteSets

CONSTANTS Calls,      \* requests to WeChat and callbacks from it
          CallKind,   \* "prepay", "query", "close", "refund" or "callback"
          CallProcess,
          Retries,    \* config.retries
          LastSerial, \* bound: certificates of the platform, 1..LastSerial
          BillChecks  \* is a length or a header expected of a bill?

ASSUME WechatAssumption ==
  /\ CallKind \in [Calls -> {"prepay", "query", "close", "refund", "callback"}]
  /\ Retries \in Nat /\ LastSerial \in Nat \ {0} /\ BillChecks \subseteq BOOLEAN

VARIABLES valid,    \* serials WeChat signs with
          certs,    \* serials in platform_cert_dir
          call,     \* of each: [at, tries, serial, genuine, list, left, robbed]
          sent,     \* history: how often a request was sent
          billFile, \* "none", "part" or "whole"
          billed,   \* the check of bills, as configured
          saving, loading, clearing, \* of a bill: "idle", or its next step
          kept,     \* history: has a save ended that cleanup did not undo?
          misread   \* history: was it found corrupt while it was being written?

wechatVars == <<valid, certs, call, sent>>
billVars == <<billFile, billed, saving, loading, clearing, kept, misread>>

Serials == 1..LastSerial
NewCall == [at |-> "new", tries |-> 0, serial |-> 0, genuine |-> FALSE,
            list |-> {}, left |-> {}, robbed |-> FALSE]

WechatInit ==
  /\ valid = {1} /\ certs = {}
  /\ call = [c \in Calls |-> NewCall] /\ sent = [c \in Calls |-> 0]
  /\ billFile = "none" /\ billed \in BillChecks
  /\ saving = "idle" /\ loading = "idle" /\ clearing = "idle"
  /\ kept = FALSE /\ misread = FALSE

(* Between two awaits the other coroutines of the process wait: while the
   certificates are stored, and until one of them is read again. *)
Synchronous == {"writing", "listing", "removing", "loading"}
MayRun(c) ==
  \A o \in Calls \ {c} :
    CallProcess[o] = CallProcess[c] => call[o].at \notin Synchronous

Becomes(c, r) == call' = [call EXCEPT ![c] = r]
GoesTo(c, at) == Becomes(c, [call[c] EXCEPT !.at = at])
Ends(c, at) == Becomes(c, [NewCall EXCEPT !.at = at])

(* WeChat takes a new certificate beside the last one, and drops the last. *)
Rotate ==
  /\ \E s \in Serials :
       \/ s \notin valid /\ s - 1 \in valid /\ valid' = valid \cup {s}
       \/ s \in valid /\ s + 1 \in valid /\ valid' = valid \ {s}
  /\ UNCHANGED <<certs, call, sent, billVars>>

----------------------------------------
(* Requests. *)

(* _do_prepay asks for no retries; _do_query_order and _do_query_refund
   take 404 for an answer, which _do_close_order and _do_refund do not. *)
Retryable(c) == CallKind[c] # "prepay"
NotFoundOk(c) == CallKind[c] = "query"

(* _request_once, up to the await. *)
Send(c) ==
  /\ CallKind[c] # "callback" /\ call[c].at \in {"new", "waiting"} /\ MayRun(c)
  /\ Becomes(c, [call[c] EXCEPT !.at = "sent", !.tries = @ + 1])
  /\ sent' = [sent EXCEPT ![c] = @ + 1]
  /\ UNCHANGED <<valid, certs, billVars>>

(* A mutant: every request is sent again. *)
AfterFailureAlways(c) == IF call[c].tries <= Retries THEN "waiting" ELSE "failed"

(* _is_retriable_error of a network error, 429 or 5xx; a prepay is not
   sent twice. *)
AfterFailure(c) ==
  IF Retryable(c) /\ call[c].tries <= Retries THEN "waiting" ELSE "failed"

(* The answer is lost, or says what is wrong. *)
AnswerWithout(c) ==
  /\ call[c].at = "sent" /\ MayRun(c)
  /\ \/ GoesTo(c, AfterFailure(c))
     \/ Ends(c, "failed")
     \/ NotFoundOk(c) /\ Ends(c, "missing")
     \/ Ends(c, "unsigned")
  /\ UNCHANGED <<valid, certs, sent, billVars>>

(* load_verify_key, then WeChatSigner.verify; `without` is what is next
   when there is no key. *)
Verified(c, r, without) ==
  IF r.serial \notin certs THEN Becomes(c, [r EXCEPT !.at = without])
  ELSE IF r.genuine THEN Becomes(c, [NewCall EXCEPT !.at = "done", !.genuine = TRUE])
  ELSE Ends(c, "failed")

Receives(c) ==
  \E s \in valid, g \in BOOLEAN :
    Verified(c, [call[c] EXCEPT !.serial = s, !.genuine = g], "asking")

AnswerSigned(c) ==
  /\ call[c].at = "sent" /\ MayRun(c)
  /\ Receives(c)
  /\ UNCHANGED <<valid, certs, sent, billVars>>

(* WeChatCallbackVerifier.parse: without its headers, or outside the time
   allowed, a callback is refused at once. *)
CallbackComes(c) ==
  /\ CallKind[c] = "callback" /\ call[c].at = "new" /\ MayRun(c)
  /\ Ends(c, "failed") \/ Receives(c)
  /\ UNCHANGED <<valid, certs, sent, billVars>>

----------------------------------------
(* download_certificates. *)

(* Under the lock of the client; whoever waited for it asks again. *)
Fetch(c) ==
  /\ call[c].at = "asking" /\ MayRun(c)
  /\ \A o \in Calls : CallProcess[o] = CallProcess[c] => call[o].at # "fetching"
  /\ GoesTo(c, "fetching")
  /\ UNCHANGED <<valid, certs, sent, billVars>>

(* What went wrong with the download is logged. *)
Fetched(c) ==
  /\ call[c].at = "fetching" /\ MayRun(c)
  /\ \E l \in {valid, {}} :
       Becomes(c, [call[c] EXCEPT !.list = l, !.left = l,
                                  !.at = IF l = {} THEN "loading" ELSE "writing"])
  /\ UNCHANGED <<valid, certs, sent, billVars>>

(* persist_certificates: each file takes its place whole. *)
Persist(c) ==
  /\ call[c].at = "writing"
  /\ IF call[c].left = {} THEN GoesTo(c, "listing") /\ UNCHANGED certs
     ELSE \E s \in call[c].left :
            certs' = certs \cup {s} /\ Becomes(c, [call[c] EXCEPT !.left = @ \ {s}])
  /\ UNCHANGED <<valid, sent, billVars>>

(* A mutant: the directory is emptied. *)
StaleFilesAll(c) == certs

(* Files that are not of the list are looked for, *)
StaleFiles(c) == certs \ call[c].list

ListStale(c) ==
  /\ call[c].at = "listing"
  /\ Becomes(c, [call[c] EXCEPT !.at = "removing", !.left = StaleFiles(c)])
  /\ UNCHANGED <<valid, certs, sent, billVars>>

(* and removed; one that is gone breaks the removal off. *)
RemoveStale(c) ==
  /\ call[c].at = "removing"
  /\ IF call[c].left \cap certs = {}
     THEN GoesTo(c, "loading") /\ UNCHANGED certs
     ELSE \E s \in call[c].left :
            IF s \notin certs THEN GoesTo(c, "loading") /\ UNCHANGED certs
            ELSE /\ certs' = certs \ {s}
                 /\ call' = [o \in Calls |->
                      IF o = c THEN [call[c] EXCEPT !.left = @ \ {s}]
                      ELSE IF s \in call[o].list /\ CallProcess[o] # CallProcess[c]
                      THEN [call[o] EXCEPT !.robbed = TRUE] ELSE call[o]]
  /\ UNCHANGED <<valid, sent, billVars>>

LoadAgain(c) ==
  /\ call[c].at = "loading"
  /\ Verified(c, [call[c] EXCEPT !.left = {}], "nokey")
  /\ UNCHANGED <<valid, certs, sent, billVars>>

WechatNext ==
  \/ Rotate
  \/ \E c \in Calls :
       \/ Send(c) \/ AnswerWithout(c) \/ AnswerSigned(c) \/ CallbackComes(c)
       \/ Fetch(c) \/ Fetched(c) \/ Persist(c) \/ ListStale(c) \/ RemoveStale(c)
       \/ LoadAgain(c)

----------------------------------------
(* BillFileManager: a bill saved, loaded and cleaned up by three processes. *)

(* save opens the file, which empties it, and writes. *)
SaveOpens ==
  /\ saving = "idle"
  /\ saving' = "writing" /\ billFile' = "part"
  /\ kept' = FALSE /\ misread' = (loading = "corrupt")
  /\ UNCHANGED <<billed, loading, clearing, wechatVars>>

(* What is written into a file that was removed is lost. *)
SaveWrites ==
  /\ saving = "writing" /\ saving' = "idle"
  /\ billFile' = (IF billFile = "part" THEN "whole" ELSE billFile)
  /\ kept' = (billFile = "part" \/ misread)
  /\ UNCHANGED <<billed, loading, clearing, misread, wechatVars>>

(* load: what is checked is what was read. *)
LoadReads ==
  /\ loading = "idle"
  /\ loading' = CASE billFile = "none" -> "gone"
                  [] billFile = "part" /\ billed -> "corrupt"
                  [] OTHER -> billFile
  /\ misread' = (misread \/ (billed /\ billFile = "part"))
  /\ UNCHANGED <<billFile, billed, saving, clearing, kept, wechatVars>>

(* A file that was found corrupt is removed, whatever it is by now. *)
LoadEnds ==
  /\ loading # "idle" /\ loading' = "idle"
  /\ billFile' = IF loading = "corrupt" THEN "none" ELSE billFile
  /\ UNCHANGED <<billed, saving, clearing, kept, misread, wechatVars>>

(* cleanup_expired removes the file and then the directory, unless there
   is a new file in it. *)
Cleanup ==
  /\ clearing = "idle" /\ billFile # "none"
  /\ clearing' = "removing" /\ billFile' = "none" /\ kept' = FALSE
  /\ UNCHANGED <<billed, saving, loading, misread, wechatVars>>

CleanupEnds ==
  /\ clearing = "removing" /\ clearing' = "idle"
  /\ UNCHANGED <<billFile, billed, saving, loading, kept, misread, wechatVars>>

BillNext ==
  \/ SaveOpens \/ SaveWrites \/ LoadReads \/ LoadEnds \/ Cleanup \/ CleanupEnds

----------------------------------------
(* Properties. *)

(* A prepay is sent once and other requests at most Retries times more
   (WeChatPayClient.request: a repeated prepay may be paid twice). *)
SentInBounds ==
  \A c \in Calls : sent[c] <= IF CallKind[c] = "prepay" THEN 1 ELSE Retries + 1

(* What passes as verified was signed by WeChat.  An answer that lacks one
   of the headers of a signature is taken without any check
   (_verify_response returns): what is "unsigned" may be anybody's, but it
   never is a callback, which is refused without them.  A message WeChat
   signed fails for want of a certificate only when the download failed,
   or its list did no longer have it, or another process removed the file
   in the meantime (persist_certificates). *)
TrustExplained ==
  \A c \in Calls :
    /\ call[c].at = "done" => call[c].genuine
    /\ call[c].at = "unsigned" => CallKind[c] # "callback"
    /\ call[c].at = "nokey" => call[c].serial \notin call[c].list \/ call[c].robbed

(* A bill that was saved stays whole until it is cleaned up, with one
   exception: a load that checks bills read it while it was being written,
   took it for corrupt, and removes it, the saved one too.  A load that
   checks nothing never does (BillFileManager.save, load). *)
BillKept ==
  /\ kept => billFile = "whole" \/ misread
  /\ misread => billed

(* Nothing is sent more often than it may be; what passes as verified was
   signed by WeChat, unsigned answers to requests pass unverified; and a
   saved bill is lost to cleanup or to a load beside the save only
   (WeChatPayClient, BillFileManager). *)
ChannelTrusted == SentInBounds /\ TrustExplained /\ BillKept
=============================================================================
