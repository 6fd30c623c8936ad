---------------------------- MODULE Notifications ----------------------------
(***************************************************************************)
(* What becomes of one alert on its way out: the tasks that post it to the *)
(* webhooks, mail it and send it to telephones, and the emergency alert of *)
(* a review.  The tasks run beside each other; nobody waits for them.      *)
(***************************************************************************)
EXTENDS Naturals, Sequences

CONSTANTS
    Webhooks,       \* webhook_urls; all four are sequences of addressees
    Recipients,     \* alert_recipients, empty without an smtp_host
    Phones,         \* twilio_to_numbers, empty when Twilio is not enabled
    Chats,          \* the Telegram chat, if any
    MaxRetries      \* MAX_RETRIES of a webhook

IsList(s) == s \in Seq({s[n] : n \in DOMAIN s})

ASSUME NotificationsAssumption ==
    /\ MaxRetries \in Nat
    /\ IsList(Webhooks) /\ IsList(Recipients) /\ IsList(Phones) /\ IsList(Chats)

VARIABLES
    place,      \* task -> the place of the addressee it is at; 0 before it begins
    tries,      \* task -> place -> how often that one was tried
    told        \* task -> place -> how often it got the alert

notifications == <<place, tries, told>>

\* The emergency alert goes to the first telephone and the first recipient only.
FirstOf(s) == IF s = <<>> THEN <<>> ELSE <<Head(s)>>

Addressees ==
    [webhook |-> Webhooks, mail |-> Recipients, phone |-> Phones,
     emergency |-> FirstOf(Phones) \o FirstOf(Recipients) \o FirstOf(Chats)]

Tasks == DOMAIN Addressees

Attempts(t) == IF t = "webhook" THEN MaxRetries + 1 ELSE 1

Finished(t) == place[t] > Len(Addressees[t])
Sending(t)  == place[t] > 0 /\ ~Finished(t)

NotificationsInit ==
    /\ place = [t \in Tasks |-> 0]
    /\ tries = [t \in Tasks |-> [n \in DOMAIN Addressees[t] |-> 0]]
    /\ told = tries

\* create_task, for each of the tasks that do not run yet.
Create(tasks) ==
    /\ \A t \in Tasks : place[t] = 0
    /\ place' = [t \in Tasks |-> IF t \in tasks THEN 1 ELSE 0]
    /\ UNCHANGED <<tries, told>>

\* _dispatch_notifications of the dispatcher, and of the escalation timer.
DispatchNotifications == Create({"webhook", "mail"})

\* NotificationClient.notify, which selects by the severity.  Recipients or
\* Phones that are not configured are empty, so their tasks end at once.
Notify ==
    \/ Create({})                               \* LOW
    \/ Create({"webhook", "mail"})              \* MEDIUM
    \/ Create({"webhook", "mail", "phone"})     \* HIGH

\* The manual escalation of an alert.
PostEscalation == Create({"webhook"})

\* A review that escalates: NotificationService in a background task, unless the
\* export of the clip, the task before it, raises.
EmergencyAlert == Create({"emergency"})

\* The addressee at hand was tried; it got the alert or not.
Tried(t, gets) ==
    /\ tries' = [tries EXCEPT ![t][place[t]] = @ + 1]
    /\ told' = [told EXCEPT ![t][place[t]] = IF gets THEN @ + 1 ELSE @]

\* The server says that it took the alert.
Succeed(t) ==
    /\ Sending(t)
    /\ Tried(t, TRUE)
    /\ place' = [place EXCEPT ![t] = @ + 1]

BugAfterFailure(t) ==
    IF tries[t][place[t]] + 1 < Attempts(t) THEN place[t] ELSE Len(Addressees[t]) + 1

\* Where a task goes on after an exception: a webhook is tried again, and then
\* the next; one failure ends the mails; calls to telephones are on their own.
AfterFailure(t) ==
    IF tries[t][place[t]] + 1 < Attempts(t) THEN place[t]
    ELSE IF t = "mail" THEN Len(Addressees[t]) + 1
    ELSE place[t] + 1

\* It raises, whether the alert got through (a late or lost answer) or not.
Fail(t) ==
    /\ Sending(t)
    /\ \E gets \in BOOLEAN : Tried(t, gets)
    /\ place' = [place EXCEPT ![t] = AfterFailure(t)]

\* The library of its client is not installed, or the client cannot be made: the
\* task is over before it has tried anybody.  The services of an emergency have
\* one addressee each, whose own failure that is.
CannotStart(t) ==
    /\ t # "emergency" /\ Sending(t)
    /\ place[t] = 1 /\ tries[t][1] = 0
    /\ place' = [place EXCEPT ![t] = Len(Addressees[t]) + 1]
    /\ UNCHANGED <<tries, told>>

NotificationsNext ==
    \/ DispatchNotifications \/ Notify \/ PostEscalation \/ EmergencyAlert
    \/ \E t \in Tasks : Succeed(t) \/ Fail(t) \/ CannotStart(t)

NotificationsSpec == NotificationsInit /\ [][NotificationsNext]_notifications

-----------------------------------------------------------------------------
(* Properties. *)

\* Once a task has tried anybody, whoever it is done with was told, or was tried
\* as often as can be: no failure of one webhook or telephone keeps another from
\* being told.  Only a mail that fails keeps the later recipients from being tried.
\* The services of an emergency do not even wait for that: each is tried.
FailuresStayApart ==
    \A t \in Tasks : \A n \in DOMAIN Addressees[t] : n < place[t] =>
        \/ told[t][n] > 0 \/ tries[t][n] = Attempts(t)
        \/ t = "mail" /\ \E k \in 1..(n - 1) : tries[t][k] = Attempts(t)
        \/ t # "emergency" /\ \A k \in DOMAIN Addressees[t] : tries[t][k] = 0
=============================================================================
