---------------------------- MODULE MCInquiries ------------------------------
\* Instance of Inquiries for TLC.
EXTENDS Inquiries, TLC
==============================================================================
