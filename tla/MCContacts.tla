----------------------------- MODULE MCContacts -----------------------------
(* Small instances of Contacts.                                            *)
EXTENDS Contacts

Both == {ann, bob}
=============================================================================
