-------------------------- MODULE MCExchangeRates --------------------------
EXTENDS ExchangeRates
CONSTANTS eur, usd

\* eur against RSD, and usd bridged to eur through RSD.
Direct == <<eur>>
MCPairs == {<<usd, eur>>}
=============================================================================
