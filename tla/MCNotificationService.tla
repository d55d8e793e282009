------------------------ MODULE MCNotificationService ------------------------
(* The events of two orders.  One is executed: the relay published that event *)
(* twice, and the SMS provider can fail on it.  The other failed, and its     *)
(* customer has no email address.  The rest: an intermediate status, another  *)
(* event type twice, once in a payload that does not parse, and another       *)
(* contract version.                                                           *)
EXTENDS NotificationService

CONSTANTS processing, executed, failed, other, alien, email, sms

MCEventAt == <<executed, processing, executed, other, failed, other, alien>>
MCChannels == <<email, sms>>
MCReachable == {<<executed, email>>, <<executed, sms>>, <<failed, sms>>}
MCSendFaults == {<<executed, sms>>}
==============================================================================
