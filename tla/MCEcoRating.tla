----------------------------- MODULE MCEcoRating -----------------------------
EXTENDS EcoRating
CONSTANTS Phone, Tablet
PhoneAndTablet == {Phone, Tablet}
=============================================================================
