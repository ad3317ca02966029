---------------------------- MODULE MCPriceHistory ----------------------------
EXTENDS PriceHistory
===============================================================================
