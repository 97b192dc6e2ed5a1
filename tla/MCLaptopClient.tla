--------------------------- MODULE MCLaptopClient ---------------------------
EXTENDS LaptopClient
=============================================================================
