------------------------------ MODULE MCCache ------------------------------
EXTENDS Cache

\* data_num of the three requests
MCReqItems3 == <<2, 1, 1>>
MCReqItems2 == <<2, 1>>
=============================================================================
